---------------------------- MODULE Spec2Model ----------------------------
(***************************************************************************)
(* Argon: ingestion of CM360 / DV360 report files into a BigQuery table.   *)
(*                                                                         *)
(* Text is modelled as a sequence of one-character strings, so that name   *)
(* normalisation, comma splitting, date rewriting and the rename patterns  *)
(* are computed character by character as the code computes them.          *)
(*                                                                         *)
(* Specifications:                                                         *)
(*   Spec       repeated invocations of the HTTP function argon against    *)
(*              one destination table (src/src/reports.ts 170-358)         *)
(*   SpecExt    one CSV extractor fed line by line (cm.ts, helpers.ts)     *)
(*   SpecCM     CMReportFetcher.getReports paging (cm.ts 45-94) and        *)
(*              DVReportFetcher.getReports (helpers.ts 392-413)            *)
(*   FairSpecCM the same with weak fairness of the paging loop             *)
(*   SpecDate   convertDate applied to one line (helpers.ts 326-340)       *)
(*   SpecParse  decodeBody and parseBody applied to one request body        *)
(*              (helpers.ts 109-294)                                        *)
(*   SpecBq     one call of buildValidBQName, buildSchema, compareSchema,  *)
(*              transformSchema (bq.ts) or checkSchema (reports.ts)        *)
(***************************************************************************)
EXTENDS Integers, Sequences, FiniteSets, TLC

VARIABLES
    mode,        \* which specification's machine is running
    \* ---- destination table and report files (shared by Spec and SpecExt)
    product,     \* "CM" or "DV": opts.product
    table,       \* the BigQuery table: exists, schema, loads per fileId
    \* ---- one invocation of argon (Spec)
    pc,          \* position of the invocation
    opts,        \* ArgonOpts: single, ignore, newest, replace
    tableExists, \* local tableExists of argon
    tableSchema, \* local tableSchema of argon (schema of record)
    ingestedIds, \* local ingestedIds
    discovered,  \* keys of the reports map returned by getReports
    pendingIds,  \* local pendingIds
    cursor,      \* number of pendingIds the for loop has taken
    failedIds,   \* local failedIds, in insertion order
    attempted,   \* history: fileIds for which got.stream was opened, in order
    lastFile,    \* history: the most recent file's pipeline, as it ended
    ledgerAtStart, \* history: tracking-column values when the run started
    response,    \* the HTTP response sent, or NoResponse
    \* ---- one extractor (SpecExt)
    ext,         \* the extractor object
    input,       \* lines not yet written to the extractor
    consumed,    \* history: lines already written
    \* ---- CM file listing (SpecCM)
    cm,          \* locals of getReports
    api,         \* the listing endpoint: pages and repeat behaviour
    \* ---- convertDate (SpecDate)
    dateIn,
    dateOut,
    \* ---- request parsing (SpecParse)
    request,     \* req.body as received, and the outcome of the project lookup
    parsed,      \* the result of decodeBody and parseBody: error or options
    io,          \* history: the I/O calls made while parsing, in order
    \* ---- one call of a bq.ts function or of checkSchema (SpecBq)
    bq           \* the arguments of the call and, once made, its result

vars == <<mode, product, table, pc, opts, tableExists, tableSchema,
          ingestedIds, discovered, pendingIds, cursor, failedIds, attempted,
          lastFile, ledgerAtStart, response, ext, input, consumed, cm, api,
          dateIn, dateOut, request, parsed, io, bq>>

runVars == <<pc, opts, tableExists, tableSchema, ingestedIds, discovered,
             pendingIds, cursor, failedIds, attempted, lastFile, ledgerAtStart,
             response>>
worldVars == <<product, table>>
extVars == <<ext, input, consumed>>
cmVars == <<cm, api>>
dateVars == <<dateIn, dateOut>>
parseVars == <<request, parsed, io>>
bqVars == <<bq>>

-----------------------------------------------------------------------------
(* Bounds *)

\* number of report files of the report (fileIds 1..MaxFiles)
MaxFiles == 3
\* longest line sequence fed to the stand-alone extractor
MaxLines == 4
\* number of distinct pages of the CM file listing
MaxPages == 2
\* number of cells a line given to convertDate is built from
MaxCells == 3

FileIds == 1..MaxFiles

-----------------------------------------------------------------------------
(* Characters and strings *)

LowerChars == <<"a","b","c","d","e","f","g","h","i","j","k","l","m",
                "n","o","p","q","r","s","t","u","v","w","x","y","z">>
UpperChars == <<"A","B","C","D","E","F","G","H","I","J","K","L","M",
                "N","O","P","Q","R","S","T","U","V","W","X","Y","Z">>
DigitChars == <<"0","1","2","3","4","5","6","7","8","9">>

Range(s) == {s[i] : i \in DOMAIN s}

DigitSet == Range(DigitChars)
LowerSet == Range(LowerChars)
UpperSet == Range(UpperChars)

IsDigit(c) == c \in DigitSet
IsLower(c) == c \in LowerSet
IsUpper(c) == c \in UpperSet

\* String.prototype.toLowerCase on one character
toLowerCase(c) ==
    IF IsUpper(c)
    THEN LowerChars[CHOOSE i \in DOMAIN UpperChars : UpperChars[i] = c]
    ELSE c

\* s.startsWith(p, i) with 1-based i
StartsAt(s, p, i) ==
    /\ i + Len(p) - 1 <= Len(s)
    /\ \A k \in 1..Len(p) : s[i + k - 1] = p[k]

\* `${n}` for a non-negative integer
RECURSIVE NumberToString(_)
NumberToString(n) ==
    IF n < 10 THEN <<DigitChars[n + 1]>>
    ELSE NumberToString(n \div 10) \o <<DigitChars[(n % 10) + 1]>>

\* String.prototype.split(','): the fields between commas, at least one
RECURSIVE SplitFrom(_, _, _)
SplitFrom(s, i, cur) ==
    IF i > Len(s) THEN <<cur>>
    ELSE IF s[i] = "," THEN <<cur>> \o SplitFrom(s, i + 1, <<>>)
    ELSE SplitFrom(s, i + 1, Append(cur, s[i]))

split(s) == SplitFrom(s, 1, <<>>)

-----------------------------------------------------------------------------
(* bq.ts *)

\* a normaliser that keeps the case of letters
buildValidBQNameCased(name) ==
    [i \in 1..Len(name) |->
        IF IsDigit(name[i]) \/ IsLower(name[i]) \/ IsUpper(name[i])
        THEN name[i]
        ELSE "_"]

\* name.replace(/[^a-zA-Z0-9]/g, '_').toLowerCase()
buildValidBQName(name) ==
    [i \in 1..Len(name) |->
        IF IsDigit(name[i]) \/ IsLower(name[i]) \/ IsUpper(name[i])
        THEN toLowerCase(name[i])
        ELSE "_"]

\* buildValidBQName('File ID')
FILE_ID_COLUMN == buildValidBQName(<<"F","i","l","e"," ","I","D">>)

\* a field name that is never suffixed
SuffixNone(validName, fieldName, i, usedNames) == fieldName

\* the while loop of buildSchema that suffixes _1, _2, ... to a used name
RECURSIVE SuffixLoop(_, _, _, _)
SuffixLoop(validName, fieldName, i, usedNames) ==
    IF fieldName \in usedNames
    THEN SuffixLoop(validName, validName \o <<"_">> \o NumberToString(i),
                    i + 1, usedNames)
    ELSE fieldName

\* the fieldName the map callback of buildSchema gives to a raw name
FieldName(name, usedNames) ==
    SuffixLoop(buildValidBQName(name), buildValidBQName(name), 1, usedNames)

\* names.map(...) of buildSchema, threading usedNames
RECURSIVE MapFields(_, _, _, _)
MapFields(names, k, usedNames, fields) ==
    IF k > Len(names) THEN fields
    ELSE MapFields(names, k + 1,
                   usedNames \cup {FieldName(names[k], usedNames)},
                   Append(fields, [name |-> FieldName(names[k], usedNames),
                                   type |-> "STRING", mode |-> ""]))

\* buildSchema: the file-id column is pushed onto names before the map
buildSchema(names) ==
    [present |-> TRUE,
     fields |-> MapFields(Append(names, FILE_ID_COLUMN), 1, {}, <<>>)]

\* a null / undefined tableSchema
NullSchema == [present |-> FALSE, fields |-> <<>>]

\* a comparison of the field names alone
compareSchemaNames(left, right) ==
    /\ Len(left.fields) = Len(right.fields)
    /\ \A i \in 1..Len(left.fields) :
          left.fields[i].name = right.fields[i].name

\* compareSchema(left, right): positional equality of name and type; false,
\* not an exception, when the lengths differ. (The schemas of the model always
\* have a fields array, so the !expected || !test operands are false.)
compareSchema(left, right) ==
    /\ Len(left.fields) = Len(right.fields)
    /\ \A i \in 1..Len(left.fields) :
          /\ left.fields[i].name = right.fields[i].name
          /\ left.fields[i].type = right.fields[i].type


\* deepCopy(obj): JSON.parse(JSON.stringify(obj)) of an array of fields
deepCopy(fields) == [i \in DOMAIN fields |-> fields[i]]

(* Regular expressions used by the program, each matched as the JavaScript    *)
(* engine matches it. MatchLen is the length of the match that starts at i,   *)
(* or 0 when the pattern does not match there.                                *)
RE_CM == "d?cm(?!360)"
RE_DBM == "dbm"
RE_DATE == "(\\d{4})\\/(\\d{2})\\/(\\d{2})"

Is360At(s, i) == StartsAt(s, <<"3","6","0">>, i)

AllDigits(s, i, n) ==
    /\ i + n - 1 <= Len(s)
    /\ \A k \in 0..(n - 1) : IsDigit(s[i + k])

MatchLen(re, s, i) ==
    CASE re = RE_CM ->
            \* d? is greedy: first with the d, then without it
            IF StartsAt(s, <<"d","c","m">>, i) /\ ~Is360At(s, i + 3) THEN 3
            ELSE IF StartsAt(s, <<"c","m">>, i) /\ ~Is360At(s, i + 2) THEN 2
            ELSE 0
      [] re = RE_DBM ->
            IF StartsAt(s, <<"d","b","m">>, i) THEN 3 ELSE 0
      [] re = RE_DATE ->
            IF /\ AllDigits(s, i, 4)
               /\ StartsAt(s, <<"/">>, i + 4)
               /\ AllDigits(s, i + 5, 2)
               /\ StartsAt(s, <<"/">>, i + 7)
               /\ AllDigits(s, i + 8, 2)
            THEN 10 ELSE 0

\* positions at which the pattern matches
MatchPositions(re, s) == {i \in 1..Len(s) : MatchLen(re, s, i) > 0}

\* RegExp.prototype.test for a pattern without the g flag
test(re, s) == MatchPositions(re, s) # {}

\* the leftmost match
FirstMatch(re, s) ==
    CHOOSE i \in MatchPositions(re, s) : \A j \in MatchPositions(re, s) : i <= j

\* the replacement text for the match at i: newString with $1 $2 $3 expanded
Expand(re, s, i, newString) ==
    IF re = RE_DATE
    THEN SubSeq(s, i, i + 3) \o <<"-">> \o SubSeq(s, i + 5, i + 6)
         \o <<"-">> \o SubSeq(s, i + 8, i + 9)
    ELSE newString

\* String.prototype.replace(re, newString) for a pattern without the g flag:
\* only the first match is replaced
ReplaceAt(s, re, newString, i) ==
    SubSeq(s, 1, i - 1) \o Expand(re, s, i, newString)
        \o SubSeq(s, i + MatchLen(re, s, i), Len(s))

strReplace(s, re, newString) ==
    IF ~test(re, s) THEN s
    ELSE ReplaceAt(s, re, newString, FirstMatch(re, s))

\* reports.ts NAME_PATTERNS, in Map insertion order
NAME_PATTERNS ==
    << [oldPattern |-> RE_CM,  newString |-> <<"c","m","3","6","0">>],
       [oldPattern |-> RE_DBM, newString |-> <<"d","v","3","6","0">>] >>

\* inner loop of transformSchema for one field: every matching pattern
\* assigns fields[i].name from the ORIGINAL fieldName
RECURSIVE RenameLoop(_, _, _, _)
RenameLoop(fieldName, current, patternMap, k) ==
    IF k > Len(patternMap) THEN current
    ELSE IF test(patternMap[k].oldPattern, fieldName)
    THEN RenameLoop(fieldName,
                    strReplace(fieldName, patternMap[k].oldPattern,
                            patternMap[k].newString),
                    patternMap, k + 1)
    ELSE RenameLoop(fieldName, current, patternMap, k + 1)

\* a renamed flag that only the first pattern of the map sets
RenamedFirstPattern(fields, patternMap) ==
    \E i \in DOMAIN fields : test(patternMap[1].oldPattern, fields[i].name)

\* whether some pattern matched some field name (the renamed flag)
Renamed(fields, patternMap) ==
    \E i \in DOMAIN fields : \E k \in DOMAIN patternMap :
        test(patternMap[k].oldPattern, fields[i].name)

\* transformSchema: a new schema, or NullSchema when nothing was renamed
\* the outer loop of transformSchema over the copied fields
RenameFields(copy, patternMap) ==
    [i \in DOMAIN copy |->
        [copy[i] EXCEPT !.name =
            RenameLoop(copy[i].name, copy[i].name, patternMap, 1)]]

transformSchema(schema, patternMap) ==
    IF ~Renamed(deepCopy(schema.fields), patternMap) THEN NullSchema
    ELSE [present |-> TRUE,
          fields |-> RenameFields(deepCopy(schema.fields), patternMap)]

ERR_NO_NAMES == "Error: Table schema fields are missing names."

\* transformSchema throws when it meets a field whose name is falsy
transformThrows(schema) ==
    \E i \in DOMAIN schema.fields : Len(schema.fields[i].name) = 0

\* Objects: the heap maps a reference to the fields array stored there. The
\* argument of transformSchema is at reference 1.
Heap0(fields) == [r \in 1..2 |-> IF r = 1 THEN fields ELSE <<>>]

\* a copy that is the object it was given
aliasRef(ref) == ref

\* the reference deepCopy returns: JSON.parse builds a new object
deepCopyRef(ref) == ref + 1

\* the heap after the loop of transformSchema: const fields = deepCopy(...)
\* is stored at target, and fields[i].name = ... writes there
HeapAfter(heap, ref, target, patternMap) ==
    [heap EXCEPT ![target] = RenameFields(deepCopy(heap[ref]), patternMap)]

\* schema.fields of the argument when transformSchema has returned
fieldsAfterTransform(schema, patternMap) ==
    HeapAfter(Heap0(schema.fields), 1, deepCopyRef(1), patternMap)[1]

-----------------------------------------------------------------------------
(* The BigQuery table (external collaborator, at its interface) *)

NoTable == [exists |-> FALSE, schema |-> NullSchema, loads |-> [f \in FileIds |-> 0]]

\* metadata.schema as BigQuery returns it: every field has a mode
StoredSchema(schema) ==
    [present |-> TRUE,
     fields |-> [i \in DOMAIN schema.fields |->
                   [schema.fields[i] EXCEPT !.mode = "NULLABLE"]]]

\* SELECT DISTINCT(file_id): the fileIds that have rows in the table
\* a ledger that reports no file id
LedgerNone(tbl) == {}

Ledger(tbl) == {f \in FileIds : tbl.loads[f] > 0}

-----------------------------------------------------------------------------
(* reports.ts: CSVExtractorBase *)

ERR_NO_LINES == "Error: No CSV lines found."
ERR_SCHEMA == "Error: Schema does not match."
ERR_EXISTS == "ApiError: Already Exists: Table"

\* new CSVExtractor(table, tableSchema, fileId)
NewExtractor(schema, fileId) ==
    [fileIdColumn |-> <<",">> \o NumberToString(fileId),
     tableSchema |-> schema,
     counter |-> 0,
     previous |-> <<>>,
     fieldsFound |-> FALSE,
     csvFound |-> FALSE,
     passthrough |-> FALSE,
     summaryFound |-> FALSE,
     out |-> <<>>,        \* rows pushed to the readable side
     ended |-> FALSE,     \* push(null) was called
     flushed |-> FALSE,   \* _flush ran
     handled |-> 0,       \* calls of handleFields
     error |-> ""]        \* the error that destroyed the stream, if any

\* pushLine: chunk, then the file id, then a newline; counter is incremented
\* a push of the line without the file id
pushLineBare(x, chunk) ==
    [x EXCEPT !.out = Append(@, chunk \o <<"\n">>), !.counter = @ + 1]

pushLine(x, chunk) ==
    [x EXCEPT !.out = Append(@, chunk \o x.fileIdColumn \o <<"\n">>),
              !.counter = @ + 1]

\* an end of input that accepts a transform without rows
flushSilent(x) == [x EXCEPT !.flushed = TRUE]

\* _flush: an error is emitted when no line was pushed
flush(x) ==
    [x EXCEPT !.flushed = TRUE,
              !.error = IF x.counter = 0 THEN ERR_NO_LINES ELSE @]

\* a check that compares the table schema directly and never renames
SchemaMatchesDirect(tblSchema, renamedSchema, schema) ==
    compareSchema(tblSchema, schema)

\* checkSchema: direct comparison, then comparison of the renamed table schema
SchemaMatches(tblSchema, renamedSchema, schema) ==
    \/ compareSchema(tblSchema, schema)
    \/ renamedSchema.present /\ compareSchema(renamedSchema, schema)

\* a check that takes the renamed schema as the schema of the extractor
checkSchemaAdopts(x, schema) ==
    IF compareSchema(x.tableSchema, schema) THEN x
    ELSE IF SchemaMatches(x.tableSchema,
                          transformSchema(x.tableSchema, NAME_PATTERNS), schema)
    THEN [x EXCEPT !.tableSchema = transformSchema(x.tableSchema, NAME_PATTERNS)]
    ELSE [x EXCEPT !.error = ERR_SCHEMA]

\* this.tableSchema is the object handed to transformSchema; the error of a
\* throwing transformSchema rejects handleFields
checkSchema(x, schema) ==
    IF compareSchema(x.tableSchema, schema) THEN x
    ELSE IF transformThrows(x.tableSchema)
    THEN [x EXCEPT !.error = ERR_NO_NAMES]
    ELSE [x EXCEPT !.tableSchema.fields =
                        fieldsAfterTransform(x.tableSchema, NAME_PATTERNS),
                   !.error = IF SchemaMatches(x.tableSchema,
                                              transformSchema(x.tableSchema,
                                                              NAME_PATTERNS),
                                              schema)
                             THEN @ ELSE ERR_SCHEMA]

\* a creation after which the extractor keeps the schema it built itself
createTableLocal(x, tbl, schema) ==
    IF tbl.exists
    THEN [x |-> [x EXCEPT !.error = ERR_EXISTS], tbl |-> tbl]
    ELSE [x |-> [x EXCEPT !.tableSchema = schema],
          tbl |-> [tbl EXCEPT !.exists = TRUE, !.schema = StoredSchema(schema)]]

\* createTable: table.create({schema}) rejects when the table already exists;
\* this.tableSchema becomes metadata.schema of the response
createTable(x, tbl, schema) ==
    IF tbl.exists
    THEN [x |-> [x EXCEPT !.error = ERR_EXISTS], tbl |-> tbl]
    ELSE [x |-> [x EXCEPT !.tableSchema = StoredSchema(schema)],
          tbl |-> [tbl EXCEPT !.exists = TRUE, !.schema = StoredSchema(schema)]]

\* handleFields: create the table on first ingestion, else check the schema
Reconcile(x, tbl, reportSchema) ==
    IF ~x.tableSchema.present
    THEN createTable(x, tbl, reportSchema)
    ELSE [x |-> checkSchema(x, reportSchema), tbl |-> tbl]

handleFields(x, tbl, names) ==
    Reconcile([x EXCEPT !.handled = @ + 1], tbl, buildSchema(names))

-----------------------------------------------------------------------------
(* cm.ts: CMCSVExtractor, helpers.ts: DVCSVExtractor *)

FIELDS_HEADER == <<"R","e","p","o","r","t"," ","F","i","e","l","d","s">>

\* "process csv lines next": csvFound is set while handleFields is pending
CsvNext(r) == [x |-> [r.x EXCEPT !.csvFound = TRUE], tbl |-> r.tbl]

\* a transform that pushes each data line as it arrives
CMTransformUnbuffered(x, tbl, chunk) ==
    IF x.csvFound
    THEN [x |-> pushLine(x, chunk), tbl |-> tbl]
    ELSE IF x.fieldsFound
    THEN CsvNext(handleFields(x, tbl, split(chunk)))
    ELSE IF chunk = FIELDS_HEADER
    THEN [x |-> [x EXCEPT !.fieldsFound = TRUE], tbl |-> tbl]
    ELSE [x |-> x, tbl |-> tbl]

\* CMCSVExtractor._transform
CMTransform(x, tbl, chunk) ==
    IF x.passthrough
    THEN [x |-> [pushLine(x, x.previous) EXCEPT !.previous = chunk], tbl |-> tbl]
    ELSE IF x.csvFound
    THEN [x |-> [x EXCEPT !.previous = chunk, !.passthrough = TRUE], tbl |-> tbl]
    ELSE IF x.fieldsFound
    THEN CsvNext(handleFields(x, tbl, split(chunk)))
    ELSE IF chunk = FIELDS_HEADER
    THEN [x |-> [x EXCEPT !.fieldsFound = TRUE], tbl |-> tbl]
    ELSE [x |-> x, tbl |-> tbl]

\* convertDate: line.replace(DV_DATE_PATTERN, BQ_DATE_REPLACE)
convertDate(line) == strReplace(line, RE_DATE, <<"$","1","-","$","2","-","$","3">>)

\* a transform that goes on emitting rows after the summary line
DVTransformThrough(x, tbl, chunk) ==
    IF x.csvFound
    THEN IF Len(chunk) = 0 \/ chunk[1] = ","
         THEN [x |-> [x EXCEPT !.summaryFound = TRUE], tbl |-> tbl]
         ELSE [x |-> pushLine(x, convertDate(chunk)), tbl |-> tbl]
    ELSE IF x.summaryFound
    THEN [x |-> [x EXCEPT !.ended = TRUE], tbl |-> tbl]
    ELSE CsvNext(handleFields(x, tbl, split(chunk)))

\* a transform that takes the line after the summary line as a new header
DVTransformRestart(x, tbl, chunk) ==
    IF x.csvFound
    THEN IF Len(chunk) = 0 \/ chunk[1] = ","
         THEN [x |-> [x EXCEPT !.summaryFound = TRUE, !.csvFound = FALSE],
               tbl |-> tbl]
         ELSE [x |-> pushLine(x, convertDate(chunk)), tbl |-> tbl]
    ELSE CsvNext(handleFields(x, tbl, split(chunk)))

\* DVCSVExtractor._transform; done is called when handleFields has settled,
\* so the next line is written only after the table was created or checked
DVTransform(x, tbl, chunk) ==
    IF x.csvFound
    THEN IF Len(chunk) = 0 \/ chunk[1] = ","
         THEN [x |-> [x EXCEPT !.summaryFound = TRUE, !.csvFound = FALSE],
               tbl |-> tbl]
         ELSE [x |-> pushLine(x, convertDate(chunk)), tbl |-> tbl]
    ELSE IF x.summaryFound
    THEN [x |-> [x EXCEPT !.ended = TRUE], tbl |-> tbl]
    ELSE CsvNext(handleFields(x, tbl, split(chunk)))

\* the CSVExtractor class selected by opts.product
Transform(prod, x, tbl, chunk) ==
    IF prod = "CM" THEN CMTransform(x, tbl, chunk) ELSE DVTransform(x, tbl, chunk)

\* a pipeline that keeps writing lines to an extractor that emitted an error
RECURSIVE FeedOn(_, _, _, _)
FeedOn(prod, w, lines, k) ==
    IF k > Len(lines)
    THEN [x |-> [w.x EXCEPT !.flushed = TRUE,
                            !.error = IF w.x.counter = 0 /\ @ = ""
                                      THEN ERR_NO_LINES ELSE @],
          tbl |-> w.tbl]
    ELSE FeedOn(prod, Transform(prod, w.x, w.tbl, lines[k]), lines, k + 1)

\* pipeline(file, split(), extractCSV, ...): every line is written to the
\* extractor until it errors, then _flush runs
RECURSIVE Feed(_, _, _, _)
Feed(prod, w, lines, k) ==
    IF w.x.error # "" THEN w
    ELSE IF k > Len(lines) THEN [x |-> flush(w.x), tbl |-> w.tbl]
    ELSE Feed(prod, Transform(prod, w.x, w.tbl, lines[k]), lines, k + 1)

-----------------------------------------------------------------------------
(* Report file contents *)

L_META == <<"m">>
L_HEADER == <<"d","v","3","6","0",",","B">>
L_HEADER_DRIFT == <<"x">>
L_ROW1 == <<"1",",","2">>
L_ROW2 == <<"3",",","4">>
L_ROW3 == <<"5",",","6">>
L_DATEROW == <<"2","0","2","2","/","0","1","/","0","5",",","1">>
L_SUMMARY == <<",","9">>
L_EMPTY == <<>>

Products == {"CM", "DV"}

\* lines the stand-alone extractor is fed, per product
LineAlphabet(prod) ==
    IF prod = "CM"
    THEN {L_META, FIELDS_HEADER, L_HEADER, L_ROW1, L_ROW2}
    ELSE {L_HEADER, L_DATEROW, L_ROW1, L_SUMMARY, L_EMPTY}

SeqsUpTo(S, n) == UNION {[1..k -> S] : k \in 0..n}

\* the example input of the specification: [metadata, "Report Fields", H, R1, R2, R3, SummaryLine]
ExampleCM == <<L_META, FIELDS_HEADER, L_HEADER, L_ROW1, L_ROW2, L_ROW3, L_SUMMARY>>
ExampleDV == <<L_HEADER, L_DATEROW, L_ROW1, L_ROW2, L_SUMMARY, L_ROW3>>

Inputs(prod) ==
    SeqsUpTo(LineAlphabet(prod), MaxLines)
        \cup {IF prod = "CM" THEN ExampleCM ELSE ExampleDV}

\* schemas a destination table can have
SchemaOfHeader == StoredSchema(buildSchema(split(L_HEADER)))
SchemaLegacy == StoredSchema(buildSchema(<< <<"d","b","m">>, <<"b">> >>))
SchemaOther == StoredSchema(buildSchema(<< <<"x">>, <<"y">> >>))

TableWith(schema) == [NoTable EXCEPT !.exists = TRUE, !.schema = schema]

-----------------------------------------------------------------------------
(* Values of the variables a specification does not use *)

NoResponse == [status |-> 0, success |-> FALSE, message |-> "", ids |-> <<>>]
NoOpts == [single |-> TRUE, ignore |-> {}, newest |-> FALSE, replace |-> FALSE]
NoFile == [fileId |-> 0, content |-> "", transport |-> "", handled |-> 0,
           counter |-> 0, error |-> "", ok |-> FALSE]

RunIdle ==
    /\ pc = "idle"
    /\ opts = NoOpts
    /\ tableExists = FALSE
    /\ tableSchema = NullSchema
    /\ ingestedIds = {}
    /\ discovered = {}
    /\ pendingIds = <<>>
    /\ cursor = 0
    /\ failedIds = <<>>
    /\ attempted = <<>>
    /\ lastFile = NoFile
    /\ ledgerAtStart = {}
    /\ response = NoResponse

ExtIdle ==
    /\ ext = NewExtractor(NullSchema, 1)
    /\ input = <<>>
    /\ consumed = <<>>

\* reports is the Map getReports builds, as a set of [id, url] entries
NoCm == [pc |-> "idle", nextPageToken |-> 0, seenFileIds |-> {}, reports |-> {},
         error |-> ""]
NoApi == [pages |-> <<>>, after |-> "end"]

CmIdle ==
    /\ cm = NoCm
    /\ api = NoApi

\* JavaScript values of a JSON body: t is the type tag ("absent" for a key
\* that is not in the body), s the characters of a string, n a number, b a
\* boolean, a the elements of an array
JsValue(t, s, n, b, a) == [t |-> t, s |-> s, n |-> n, b |-> b, a |-> a]
Absent == JsValue("absent", <<>>, 0, FALSE, <<>>)
Null == JsValue("null", <<>>, 0, FALSE, <<>>)
Str(s) == JsValue("str", s, 0, FALSE, <<>>)
Num(n) == JsValue("num", <<>>, n, FALSE, <<>>)
Bool(b) == JsValue("bool", <<>>, 0, b, <<>>)
Arr(a) == JsValue("arr", <<>>, 0, FALSE, a)

BodyKeys == {"product", "reportId", "datasetName", "profileId", "projectId",
             "single", "ignore", "newest", "replace", "email"}

\* the object {}
EmptyObject == [k \in BodyKeys |-> Absent]

NoRequest == [kind |-> "none", body |-> EmptyObject, lookup |-> "ok"]

\* a number or null
NoNumber == [null |-> TRUE, n |-> 0]

NoArgonOpts ==
    [product |-> "", reportId |-> 0, datasetName |-> <<>>, profileId |-> NoNumber,
     projectId |-> <<>>, single |-> FALSE, ignore |-> <<>>, newest |-> FALSE,
     replace |-> FALSE, email |-> <<>>]

NoParsed == [done |-> FALSE, error |-> "", opts |-> NoArgonOpts]

ParseIdle ==
    /\ request = NoRequest
    /\ parsed = NoParsed
    /\ io = <<>>

DateIdle ==
    /\ dateIn = <<>>
    /\ dateOut = <<>>

\* no call: op names the function, name / names / left / right are its
\* arguments, valid / again / schema / match / error its results; before is
\* the value of the argument left when the call is made, left the object
\* itself, as the call leaves it
NoBq ==
    [op |-> "none", name |-> <<>>, names |-> <<>>, left |-> NullSchema,
     right |-> NullSchema, done |-> FALSE, valid |-> <<>>, again |-> <<>>,
     schema |-> NullSchema, match |-> FALSE, error |-> "",
     before |-> NullSchema]

BqIdle == bq = NoBq

-----------------------------------------------------------------------------
(* SpecExt: one extractor, written to line by line *)

\* the table and the schema handed to the constructor, as argon can hand them:
\* no table; a table whose schema was read at the start of the run; or a table
\* created by an earlier file of the run that then failed (schema still null)
ExtStarts ==
    {[tbl |-> NoTable, schema |-> NullSchema],
     [tbl |-> TableWith(SchemaOfHeader), schema |-> SchemaOfHeader],
     [tbl |-> TableWith(SchemaLegacy), schema |-> SchemaLegacy],
     [tbl |-> TableWith(SchemaOther), schema |-> SchemaOther],
     [tbl |-> TableWith(SchemaOfHeader), schema |-> NullSchema]}

InitExt ==
    /\ mode = "ext"
    /\ product \in Products
    /\ \E s \in ExtStarts, f \in {1, MaxFiles} :
          /\ table = s.tbl
          /\ ext = NewExtractor(s.schema, f)
    /\ input \in Inputs(product)
    /\ consumed = <<>>
    /\ RunIdle /\ CmIdle /\ DateIdle /\ ParseIdle /\ BqIdle

Written(r) == ext' = r.x /\ table' = r.tbl

\* split() writes the next line; a destroyed stream receives nothing more
ExtWrite ==
    /\ mode = "ext"
    /\ input # <<>>
    /\ ext.error = ""
    /\ Written(Transform(product, ext, table, Head(input)))
    /\ input' = Tail(input)
    /\ consumed' = Append(consumed, Head(input))
    /\ UNCHANGED <<mode, product, runVars, cmVars, dateVars, parseVars, bqVars>>

\* end of input: _flush
ExtFlush ==
    /\ mode = "ext"
    /\ input = <<>>
    /\ ext.error = ""
    /\ ~ext.flushed
    /\ ext' = flush(ext)
    /\ UNCHANGED <<mode, worldVars, input, consumed, runVars, cmVars, dateVars, parseVars, bqVars>>

NextExt == ExtWrite \/ ExtFlush

SpecExt == InitExt /\ [][NextExt]_vars

-----------------------------------------------------------------------------
(* helpers.ts comparators and Array.prototype.sort / filter *)

\* an ascending comparator with its operands swapped
ascendingSwapped(a, b) == b - a

ascendingComparator(a, b) == a - b
\* a descending comparator with its operands swapped
descendingSwapped(a, b) == a - b

descendingComparator(a, b) == b - a

\* the comparator selected by opts.newest
Comparator(newest, a, b) ==
    IF newest THEN descendingComparator(a, b) ELSE ascendingComparator(a, b)

\* insertion of v into a sorted sequence, after every element not greater
RECURSIVE Insert(_, _, _)
Insert(sorted, v, newest) ==
    IF sorted = <<>> THEN <<v>>
    ELSE IF Comparator(newest, Head(sorted), v) <= 0
    THEN <<Head(sorted)>> \o Insert(Tail(sorted), v, newest)
    ELSE <<v>> \o sorted

\* a queue left in the key order of the reports map
sortKeyOrder(ids, newest) == ids

\* Array.prototype.sort(comparator): a stable sort
RECURSIVE sort(_, _)
sort(ids, newest) ==
    IF ids = <<>> THEN <<>>
    ELSE Insert(sort(SubSeq(ids, 1, Len(ids) - 1), newest), ids[Len(ids)], newest)

\* Array.prototype.filter
RECURSIVE filter(_, _)
filter(ids, keep) ==
    IF ids = <<>> THEN <<>>
    ELSE IF Head(ids) \in keep THEN <<Head(ids)>> \o filter(Tail(ids), keep)
    ELSE filter(Tail(ids), keep)

\* a pending queue that keeps every discovered file
ComputePendingAll(keys, ingested, ignored, newest) == sort(keys, newest)

\* [...reports.keys()].filter(not ingested, not ignored).sort(by opts.newest)
ComputePending(keys, ingested, ignored, newest) ==
    sort(filter(keys, FileIds \ (ingested \cup ignored)), newest)

-----------------------------------------------------------------------------
(* helpers.ts: decodeBody, getDefaultArgonOpts, parseBody *)

ERR_BODY_EMPTY == "Error: Request body is empty."
ERR_BODY_MALFORMED == "Error: Request body is malformed."
ERR_BODY_JSON == "SyntaxError: Unexpected token in JSON"
ERR_LOOKUP == "Error: Unable to detect a Project Id in the current environment."
ERR_PRODUCT_UNSUPPORTED ==
    "Error: Provide a supported Marketing Platform product - CM or DV."
ERR_PRODUCT_MISSING == "Error: Provide a Marketing Platform product value - CM or DV."
ERR_REPORT_INVALID == "Error: Provide a valid Report ID."
ERR_REPORT_MISSING == "Error: Provide a Report ID."
ERR_DATASET == "Error: Provide a valid BigQuery Dataset Name."
ERR_PROFILE_INVALID == "Error: Provide a valid Profile ID."
ERR_PROFILE_MISSING == "Error: Provide a Profile ID."

\* 'key' in body
Has(body, key) == body[key].t # "absent"

\* String.prototype.toUpperCase on one character, and on a string
toUpperCaseChar(c) ==
    IF IsLower(c)
    THEN UpperChars[CHOOSE i \in DOMAIN LowerChars : LowerChars[i] = c]
    ELSE c

toUpperCase(str) == [i \in DOMAIN str |-> toUpperCaseChar(str[i])]

isSupportedProduct(str) == str = <<"C","M">> \/ str = <<"D","V">>

\* a number, or NaN
NaN == [nan |-> TRUE, n |-> 0]
Finite(n) == [nan |-> FALSE, n |-> n]

DigitOf(c) == (CHOOSE i \in DOMAIN DigitChars : DigitChars[i] = c) - 1

RECURSIVE DigitsValue(_)
DigitsValue(str) ==
    IF Len(str) = 0 THEN 0
    ELSE 10 * DigitsValue(SubSeq(str, 1, Len(str) - 1)) + DigitOf(str[Len(str)])

\* StringToNumber for strings without white space, sign, point or exponent:
\* the empty string is 0, a string of digits its value, any other string NaN
StringToNumber(str) ==
    IF Len(str) = 0 THEN Finite(0)
    ELSE IF AllDigits(str, 1, Len(str)) THEN Finite(DigitsValue(str))
    ELSE NaN

\* v.toString() of an array element
toString(v) ==
    CASE v.t = "str" -> v.s
      [] v.t = "num" -> NumberToString(v.n)
      [] v.t = "bool" -> IF v.b THEN <<"t","r","u","e">> ELSE <<"f","a","l","s","e">>
      [] OTHER -> <<>>

\* Number(v)
Number(v) ==
    CASE v.t = "num" -> Finite(v.n)
      [] v.t = "str" -> StringToNumber(v.s)
      [] v.t = "bool" -> Finite(IF v.b THEN 1 ELSE 0)
      [] v.t = "null" -> Finite(0)
      [] v.t = "arr" -> IF Len(v.a) = 0 THEN Finite(0)
                        ELSE IF Len(v.a) = 1 THEN StringToNumber(toString(v.a[1]))
                        ELSE NaN
      [] OTHER -> NaN

isNaN(x) == x.nan

\* Boolean(v)
Boolean(v) ==
    CASE v.t = "bool" -> v.b
      [] v.t = "num" -> v.n # 0
      [] v.t = "str" -> Len(v.s) > 0
      [] v.t = "arr" -> TRUE
      [] OTHER -> FALSE

\* typeof v === 'string' && v.length > 0
IsNonEmptyString(v) == v.t = "str" /\ Len(v.s) > 0

\* body.ignore.map(Number).filter(id => !isNaN(id))
RECURSIVE MapNumbers(_)
MapNumbers(elems) ==
    IF Len(elems) = 0 THEN <<>>
    ELSE IF isNaN(Number(Head(elems))) THEN MapNumbers(Tail(elems))
    ELSE <<Number(Head(elems)).n>> \o MapNumbers(Tail(elems))

\* the project id of the default credentials
DEFAULT_PROJECT == <<"g","c","p">>

\* defaults that select multi-file mode
defaultsMultiple ==
    [projectId |-> DEFAULT_PROJECT, single |-> FALSE, ignore |-> <<>>,
     newest |-> FALSE, replace |-> FALSE]

\* getDefaultArgonOpts, once getProjectId has returned
getDefaultArgonOpts ==
    [projectId |-> DEFAULT_PROJECT, single |-> TRUE, ignore |-> <<>>,
     newest |-> FALSE, replace |-> FALSE]

\* the checks of parseBody, each the error it throws or ""
ProductError(body) ==
    IF Has(body, "product") /\ body.product.t = "str"
    THEN IF isSupportedProduct(toUpperCase(body.product.s)) THEN ""
         ELSE ERR_PRODUCT_UNSUPPORTED
    ELSE ERR_PRODUCT_MISSING

ReportIdError(body) ==
    IF Has(body, "reportId")
    THEN IF isNaN(Number(body.reportId)) THEN ERR_REPORT_INVALID ELSE ""
    ELSE ERR_REPORT_MISSING

DatasetError(body) ==
    IF Has(body, "datasetName") /\ IsNonEmptyString(body.datasetName) THEN ""
    ELSE ERR_DATASET

ProfileIdError(body) ==
    IF Has(body, "profileId")
    THEN IF isNaN(Number(body.profileId)) THEN ERR_PROFILE_INVALID ELSE ""
    ELSE IF toUpperCase(body.product.s) = <<"C","M">> THEN ERR_PROFILE_MISSING
    ELSE ""

\* the first check that throws
FirstError(errors) ==
    IF \A i \in DOMAIN errors : errors[i] = "" THEN ""
    ELSE errors[CHOOSE i \in DOMAIN errors :
                    errors[i] # "" /\ \A j \in 1..(i - 1) : errors[j] = ""]

\* the ArgonOpts parseBody returns for a body that passed the checks
BuildOpts(body, defaults) ==
    [product |-> IF toUpperCase(body.product.s) = <<"C","M">> THEN "CM" ELSE "DV",
     reportId |-> Number(body.reportId).n,
     datasetName |-> body.datasetName.s,
     profileId |-> IF Has(body, "profileId")
                   THEN [null |-> FALSE, n |-> Number(body.profileId).n]
                   ELSE NoNumber,
     projectId |-> IF Has(body, "projectId") /\ IsNonEmptyString(body.projectId)
                   THEN body.projectId.s ELSE defaults.projectId,
     single |-> IF Has(body, "single") THEN Boolean(body.single) ELSE defaults.single,
     ignore |-> IF Has(body, "ignore") /\ body.ignore.t = "arr"
                THEN sort(MapNumbers(body.ignore.a), FALSE) ELSE defaults.ignore,
     newest |-> IF Has(body, "newest") THEN Boolean(body.newest) ELSE defaults.newest,
     replace |-> IF Has(body, "replace") THEN Boolean(body.replace)
                 ELSE defaults.replace,
     email |-> IF Has(body, "email") /\ IsNonEmptyString(body.email)
               THEN body.email.s ELSE <<>>]

Rejected(error) == [done |-> TRUE, error |-> error, opts |-> NoArgonOpts]

Checked(body, error) ==
    IF error # "" THEN Rejected(error)
    ELSE [done |-> TRUE, error |-> "", opts |-> BuildOpts(body, getDefaultArgonOpts)]

\* parseBody: the defaults (and with them the project lookup) come first
parseBody(body, lookup) ==
    IF lookup # "ok" THEN Rejected(ERR_LOOKUP)
    ELSE Checked(body, FirstError(<<ProductError(body), ReportIdError(body),
                                    DatasetError(body), ProfileIdError(body)>>))

\* decodeBody: the error it throws, or ""
decodeBody(req) ==
    CASE req.kind = "empty" -> ERR_BODY_EMPTY
      [] req.kind = "badjson" -> ERR_BODY_JSON
      [] req.kind = "malformed" -> ERR_BODY_MALFORMED
      [] OTHER -> ""

\* const body = decodeBody(req.body); const opts = await parseBody(body)
ParseRequestBody(req) ==
    IF decodeBody(req) # "" THEN Rejected(decodeBody(req))
    ELSE parseBody(req.body, req.lookup)

\* the I/O calls of decodeBody and parseBody: getProjectId of the defaults
ParseIo(req) == IF decodeBody(req) # "" THEN <<>> ELSE <<"getProjectId">>

-----------------------------------------------------------------------------
(* SpecParse: decodeBody and parseBody applied to one request *)

\* values a request gives its fields
ProductValues ==
    {Absent, Str(<<"C","M">>), Str(<<"c","m">>), Str(<<"D","V">>),
     Str(<<"X","X">>), Num(1)}
ReportIdValues ==
    {Absent, Num(7), Str(<<"7">>), Str(<<"a","b","c">>), Str(<<>>), Null}
DatasetValues == {Absent, Str(<<"d">>), Str(<<>>), Num(1)}
ProfileIdValues == {Absent, Num(1), Str(<<"x">>)}
FlagValues == {Absent, Bool(TRUE), Bool(FALSE)}
IgnoreValues ==
    {Absent, Arr(<<>>), Arr(<<Num(3), Num(1)>>),
     Arr(<<Str(<<"2">>), Str(<<"x">>)>>), Num(5)}
ProjectIdValues == {Absent, Str(<<"p">>)}

\* bodies that vary the required fields, the optional ones absent
RequiredBodies ==
    {[EmptyObject EXCEPT !.product = p, !.reportId = r, !.datasetName = d,
                         !.profileId = f] :
        p \in ProductValues, r \in ReportIdValues, d \in DatasetValues,
        f \in ProfileIdValues}

ValidCM ==
    [EmptyObject EXCEPT !.product = Str(<<"C","M">>), !.reportId = Num(7),
                        !.datasetName = Str(<<"d">>), !.profileId = Num(1)]
ValidDV ==
    [EmptyObject EXCEPT !.product = Str(<<"D","V">>), !.reportId = Num(7),
                        !.datasetName = Str(<<"d">>)]

\* valid bodies that vary the optional fields
OptionBodies ==
    {[base EXCEPT !.single = g, !.ignore = i, !.newest = n, !.replace = r,
                  !.projectId = q] :
        base \in {ValidCM, ValidDV}, g \in FlagValues, i \in IgnoreValues,
        n \in FlagValues, r \in FlagValues, q \in ProjectIdValues}

Bodies == RequiredBodies \cup OptionBodies

\* req.body: falsy, a string, a Buffer that is not JSON, an object, or a
\* Buffer holding the JSON of an object
Requests ==
    [kind : {"empty", "malformed", "badjson"}, body : {EmptyObject},
     lookup : {"ok", "fail"}]
        \cup [kind : {"object", "buffer"}, body : Bodies, lookup : {"ok", "fail"}]

InitParse ==
    /\ mode = "parse"
    /\ product = "CM"
    /\ table = NoTable
    /\ request \in Requests
    /\ parsed = NoParsed
    /\ io = <<>>
    /\ RunIdle /\ ExtIdle /\ CmIdle /\ DateIdle /\ BqIdle

\* reports.ts 184-185
ParseRequest ==
    /\ mode = "parse"
    /\ ~parsed.done
    /\ parsed' = ParseRequestBody(request)
    /\ io' = ParseIo(request)
    /\ UNCHANGED <<mode, worldVars, runVars, extVars, cmVars, dateVars, request,
                   bqVars>>

NextParse == ParseRequest

SpecParse == InitParse /\ [][NextParse]_vars

-----------------------------------------------------------------------------
(* index: the HTTP function argon *)

\* largest ignore list of a request
MaxIgnore == 1

MSG_NO_REPORTS == "Error: No report files found."
MSG_NOTHING == "No files to ingest."
MSG_SUCCESS == "Ingestion successful."
MSG_FAILED == "Error: Ingestion failed: "
ERR_DOWNLOAD == "HTTPError: download failed"
ERR_LOAD == "Error: load failed"

\* reject(err) and resolve(msg)
\* a rejection sent with the status of a success
rejectOk(msg, ids) == [status |-> 200, success |-> FALSE, message |-> msg, ids |-> ids]

reject(msg, ids) == [status |-> 500, success |-> FALSE, message |-> msg, ids |-> ids]
resolve(msg) == [status |-> 200, success |-> TRUE, message |-> msg, ids |-> <<>>]

\* contents a report file can have, by name
Contents == {"good", "empty", "drift", "nohdr"}

FileLines(prod, content) ==
    IF prod = "CM"
    THEN CASE content = "good" ->
                <<L_META, FIELDS_HEADER, L_HEADER, L_ROW1, L_ROW2, L_SUMMARY>>
           [] content = "empty" -> <<L_META, FIELDS_HEADER, L_HEADER, L_SUMMARY>>
           [] content = "drift" ->
                <<L_META, FIELDS_HEADER, L_HEADER_DRIFT, L_ROW1, L_SUMMARY>>
           [] content = "nohdr" -> <<L_META, L_META>>
    ELSE CASE content = "good" -> <<L_HEADER, L_DATEROW, L_ROW1, L_SUMMARY, L_ROW3>>
           [] content = "empty" -> <<L_HEADER, L_SUMMARY>>
           [] content = "drift" -> <<L_HEADER_DRIFT, L_ROW1, L_SUMMARY>>
           [] content = "nohdr" -> <<>>

\* the ways the download and the load of one file can go
Transports == {"ok", "download", "load"}

\* sequences without repetition over the subsets of S: the key orders of a Map
RECURSIVE KeyOrders(_)
KeyOrders(S) ==
    {<<>>} \cup UNION {{<<v>> \o t : t \in KeyOrders(S \ {v})} : v \in S}

Init ==
    /\ mode = "run"
    /\ product \in Products
    /\ table = NoTable
    /\ RunIdle /\ ExtIdle /\ CmIdle /\ DateIdle /\ ParseIdle /\ BqIdle

ERR_REPORT_NOT_FOUND == "Error: Report not found."
ERR_DATASET_NOT_FOUND == "Error: Dataset not found."

\* what the catch of reports.ts 355-357 can receive before the table is looked
\* at: an error of decodeBody or parseBody, or a missing report or dataset
PreambleErrors ==
    ({ParseRequestBody(r).error : r \in Requests} \ {""})
        \cup {ERR_REPORT_NOT_FOUND, ERR_DATASET_NOT_FOUND}

\* reports.ts 183-240, 355-357: the invocation is rejected before the table
\* is looked at
Abort ==
    /\ mode = "run"
    /\ pc = "idle"
    /\ \E msg \in PreambleErrors : response' = reject(msg, <<>>)
    /\ pc' = "done"
    /\ UNCHANGED <<mode, worldVars, opts, tableExists, tableSchema, ingestedIds,
                   discovered, pendingIds, cursor, failedIds, attempted,
                   lastFile, ledgerAtStart, extVars, cmVars, dateVars, parseVars, bqVars>>

\* a start of the run that leaves an existing table in place under replace
ResolveKeepsTable ==
    /\ mode = "run"
    /\ pc = "idle"
    /\ \E single \in BOOLEAN, newest \in BOOLEAN, replace \in BOOLEAN,
          ignore \in {S \in SUBSET FileIds : Cardinality(S) <= MaxIgnore} :
          opts' = [single |-> single, ignore |-> ignore, newest |-> newest,
                   replace |-> replace]
    /\ ledgerAtStart' = Ledger(table)
    /\ table' = table
    /\ tableExists' = table.exists
    /\ tableSchema' = table.schema
    /\ ingestedIds' = Ledger(table)
    /\ discovered' = {}
    /\ pendingIds' = <<>>
    /\ cursor' = 0
    /\ failedIds' = <<>>
    /\ attempted' = <<>>
    /\ lastFile' = NoFile
    /\ response' = NoResponse
    /\ pc' = "fetch"
    /\ UNCHANGED <<mode, product, extVars, cmVars, dateVars, parseVars, bqVars>>

\* parseBody .. ComputeIngestedSet (reports.ts 183-270): the options are parsed,
\* an existing table is deleted (replace) or its schema and file ids are read
Resolve ==
    /\ mode = "run"
    /\ pc = "idle"
    /\ \E single \in BOOLEAN, newest \in BOOLEAN, replace \in BOOLEAN,
          ignore \in {S \in SUBSET FileIds : Cardinality(S) <= MaxIgnore} :
          opts' = [single |-> single, ignore |-> ignore, newest |-> newest,
                   replace |-> replace]
    /\ ledgerAtStart' = Ledger(table)
    /\ IF table.exists
       THEN IF opts'.replace
            THEN /\ table' = NoTable
                 /\ tableExists' = FALSE
                 /\ tableSchema' = NullSchema
            ELSE /\ table' = table
                 /\ tableExists' = TRUE
                 /\ tableSchema' = table.schema
       ELSE /\ table' = table
            /\ tableExists' = FALSE
            /\ tableSchema' = NullSchema
    /\ ingestedIds' = IF tableExists' THEN Ledger(table') ELSE {}
    /\ discovered' = {}
    /\ pendingIds' = <<>>
    /\ cursor' = 0
    /\ failedIds' = <<>>
    /\ attempted' = <<>>
    /\ lastFile' = NoFile
    /\ response' = NoResponse
    /\ pc' = "fetch"
    /\ UNCHANGED <<mode, product, extVars, cmVars, dateVars, parseVars, bqVars>>

\* DVReportFetcher.getReports throws this; a rejected API request takes the
\* same path
ERR_ENUMERATION == "Error: Invalid or empty API response."

\* getReports and the pending queue (reports.ts 272-287)
GetReports ==
    /\ mode = "run"
    /\ pc = "fetch"
    /\ \/ \E keys \in KeyOrders(FileIds) :
          /\ discovered' = Range(keys)
          /\ IF Len(keys) = 0
             THEN /\ pendingIds' = <<>>
                  /\ response' = reject(MSG_NO_REPORTS, <<>>)
                  /\ pc' = "done"
             ELSE /\ pendingIds' = ComputePending(keys, ingestedIds, opts.ignore,
                                                  opts.newest)
                  /\ IF Len(pendingIds') = 0
                     THEN /\ response' = resolve(MSG_NOTHING)
                          /\ pc' = "done"
                     ELSE /\ response' = response
                          /\ pc' = "loop"
       \* reportFetcher.getReports() throws: the outer catch rejects
       \/ /\ discovered' = {}
          /\ pendingIds' = <<>>
          /\ response' = reject(ERR_ENUMERATION, <<>>)
          /\ pc' = "done"
    /\ UNCHANGED <<mode, worldVars, opts, tableExists, tableSchema, ingestedIds,
                   cursor, failedIds, attempted, lastFile, ledgerAtStart,
                   extVars, cmVars, dateVars, parseVars, bqVars>>

\* the end of the pipeline: the load commits the rows, or fails
Load(r, fileId, transport) ==
    IF r.x.error # "" THEN r
    ELSE IF transport = "ok"
    THEN [x |-> r.x, tbl |-> [r.tbl EXCEPT !.loads[fileId] = @ + 1]]
    ELSE [x |-> [r.x EXCEPT !.error = ERR_LOAD], tbl |-> r.tbl]

\* the pipeline of one file: download, split, extract, load
Pipeline(prod, schema, tbl, fileId, content, transport) ==
    IF transport = "download"
    THEN [x |-> [NewExtractor(schema, fileId) EXCEPT !.error = ERR_DOWNLOAD],
          tbl |-> tbl]
    ELSE Load(Feed(prod, [x |-> NewExtractor(schema, fileId), tbl |-> tbl],
                   FileLines(prod, content), 1),
              fileId, transport)

\* a loop that ends after its first iteration
LoopEndsAlways(single, taken, pending) == TRUE

\* a loop that ends only with the queue
LoopEndsAtQueueEnd(single, taken, pending) == taken = Len(pending)

\* whether the for loop ends after an iteration that did not return
LoopEnds(single, taken, pending) == single \/ taken = Len(pending)

\* a final response that reports success whatever failed
FinalizeSuccess(failed) == resolve(MSG_SUCCESS)

\* the response after the loop (reports.ts 350-354)
Finalize(failed) ==
    IF Len(failed) = 0 THEN resolve(MSG_SUCCESS) ELSE reject(MSG_FAILED, failed)

\* a catch block that never returns
CatchContinues(single) == FALSE

\* the catch block of the loop (reports.ts 335-344): TRUE when argon returns
CatchReturns(single) == single

\* failedIds.add(fileId)
SetAdd(ids, fileId) == IF fileId \in Range(ids) THEN ids ELSE Append(ids, fileId)

\* an assignment of the extractor's schema that a failed pipeline does not skip
AdoptAlways(failed, current, extracted) == extracted

\* tableSchema = extractCSV.tableSchema (reports.ts 334) is inside the try,
\* after the await: it is skipped when the pipeline threw
AdoptSchema(failed, current, extracted) ==
    IF failed THEN current ELSE extracted

\* the try / catch around one pipeline and what follows it (reports.ts 317-354)
Settle(fileId, content, transport, r, failed) ==
    /\ table' = r.tbl
    /\ attempted' = Append(attempted, fileId)
    /\ cursor' = cursor + 1
    /\ lastFile' = [fileId |-> fileId, content |-> content,
                    transport |-> transport, handled |-> r.x.handled,
                    counter |-> r.x.counter, error |-> r.x.error, ok |-> ~failed]
    /\ tableSchema' = AdoptSchema(failed, tableSchema, r.x.tableSchema)
    /\ IF failed /\ CatchReturns(opts.single)
       THEN /\ failedIds' = failedIds
            /\ response' = reject(r.x.error, <<>>)
            /\ pc' = "done"
       ELSE /\ failedIds' = IF failed THEN SetAdd(failedIds, fileId) ELSE failedIds
            /\ IF LoopEnds(opts.single, cursor', pendingIds)
               THEN /\ response' = Finalize(failedIds')
                    /\ pc' = "done"
               ELSE /\ response' = response
                    /\ pc' = "loop"

Caught(fileId, content, transport, r) ==
    Settle(fileId, content, transport, r, r.x.error # "")

\* one iteration of the for loop (reports.ts 293-349), and the response when
\* it is the last one (350-354)
ProcessFile ==
    /\ mode = "run"
    /\ pc = "loop"
    /\ cursor < Len(pendingIds)
    /\ \E content \in Contents, transport \in Transports :
          Caught(pendingIds[cursor + 1], content, transport,
                 Pipeline(product, tableSchema, table, pendingIds[cursor + 1],
                          content, transport))
    /\ UNCHANGED <<mode, product, opts, tableExists, ingestedIds, discovered,
                   pendingIds, ledgerAtStart, extVars, cmVars, dateVars, parseVars, bqVars>>

\* the response was sent: the function waits for the next request
Await ==
    /\ mode = "run"
    /\ pc = "done"
    /\ pc' = "idle"
    /\ opts' = NoOpts
    /\ tableExists' = FALSE
    /\ tableSchema' = NullSchema
    /\ ingestedIds' = {}
    /\ discovered' = {}
    /\ pendingIds' = <<>>
    /\ cursor' = 0
    /\ failedIds' = <<>>
    /\ attempted' = <<>>
    /\ lastFile' = NoFile
    /\ ledgerAtStart' = {}
    /\ response' = NoResponse
    /\ UNCHANGED <<mode, worldVars, extVars, cmVars, dateVars, parseVars, bqVars>>

Next == Abort \/ Resolve \/ GetReports \/ ProcessFile \/ Await

Spec == Init /\ [][Next]_vars

-----------------------------------------------------------------------------
(* SpecCM: CMReportFetcher.getReports against the file-listing endpoint, and  *)
(* DVReportFetcher.getReports against its one response                        *)

REPORT_AVAILABLE_STATE == "REPORT_AVAILABLE"
Statuses == {REPORT_AVAILABLE_STATE, "PROCESSING"}

\* DVReportFetcher.REPORT_AVAILABLE_STATE
DV_AVAILABLE_STATE == "DONE"
DvStatuses == {DV_AVAILABLE_STATE, "RUNNING", "FAILED"}

ERR_API_RESPONSE == "Error: Invalid or empty API response."

\* report.urls.apiUrl (CM) or report.metadata.googleCloudStoragePath (DV) of
\* a listed file: an opaque text that belongs to the file
UrlOf(item) == <<"url", item.id>>

\* Map.prototype.set
MapSet(m, id, url) == {e \in m : e.id # id} \cup {[id |-> id, url |-> url]}

\* most items on one page of the listing
MaxItems == 2

\* what the endpoint does once the last page has been served:
\*   "end"    the last page carries no nextPageToken
\*   "empty"  the last page carries a token and the page after it has no items
\*   "repeat" the last page is served again and again, each time with a new token
Afters == {"end", "empty", "repeat"}

\* the items one page can hold: 1..MaxItems files, no file twice
Pages(ids) ==
    {p \in SeqsUpTo([id : ids, status : Statuses], MaxItems) :
        /\ Len(p) >= 1
        /\ \A i, j \in DOMAIN p : i # j => p[i].id # p[j].id}

IdsOf(page) == {page[i].id : i \in DOMAIN page}

\* listings: up to pagesLeft pages, every file listed once
RECURSIVE Listings(_, _)
Listings(ids, pagesLeft) ==
    IF pagesLeft = 0 THEN {<<>>}
    ELSE {<<>>} \cup
         UNION {{<<p>> \o rest : rest \in Listings(ids \ IdsOf(p), pagesLeft - 1)} :
                p \in Pages(ids)}

\* the response to a request with the given nextPageToken. Token 0 is the
\* empty string; token t asks for page t + 1. Past the last page a repeating
\* endpoint serves the last page with a token that differs from the one sent.
Respond(a, token) ==
    IF Len(a.pages) = 0 THEN [items |-> <<>>, nextPageToken |-> 0]
    ELSE IF token + 1 < Len(a.pages)
    THEN [items |-> a.pages[token + 1], nextPageToken |-> token + 1]
    ELSE IF token + 1 = Len(a.pages)
    THEN [items |-> a.pages[token + 1],
          nextPageToken |-> IF a.after = "end" THEN 0 ELSE token + 1]
    ELSE IF a.after = "repeat"
    THEN [items |-> a.pages[Len(a.pages)],
          nextPageToken |-> IF token = Len(a.pages) THEN token + 1
                            ELSE Len(a.pages)]
    ELSE [items |-> <<>>, nextPageToken |-> 0]

\* a status test that takes every listed file
CMAvailableAny(item) == TRUE

\* report.status === CMReportFetcher.REPORT_AVAILABLE_STATE
CMAvailable(item) == item.status = REPORT_AVAILABLE_STATE

\* the for loop over the items of one page (cm.ts 74-90): the break at a
\* repeated file id leaves this loop
RECURSIVE ForItems(_, _, _)
ForItems(items, k, c) ==
    IF k > Len(items) THEN c
    ELSE IF items[k].id \in c.seenFileIds THEN c
    ELSE ForItems(items, k + 1,
                  [c EXCEPT !.seenFileIds = @ \cup {items[k].id},
                            !.reports = IF CMAvailable(items[k])
                                        THEN MapSet(@, items[k].id, UrlOf(items[k]))
                                        ELSE @])

\* one iteration of the do ... while (nextPageToken) loop (cm.ts 51-91)
Iteration(c, resp) ==
    IF Len(resp.items) = 0 THEN [c EXCEPT !.pc = "done"]
    ELSE [ForItems(resp.items, 1, c) EXCEPT
             !.nextPageToken = resp.nextPageToken,
             !.pc = IF resp.nextPageToken # 0 THEN "loop" ELSE "done"]

\* report.metadata.status.state === DVReportFetcher.REPORT_AVAILABLE_STATE
DVAvailable(item) == item.status = DV_AVAILABLE_STATE

\* the for loop of DVReportFetcher.getReports (helpers.ts 401-410)
RECURSIVE DvForReports(_, _, _)
DvForReports(items, k, reports) ==
    IF k > Len(items) THEN reports
    ELSE DvForReports(items, k + 1,
                      IF DVAvailable(items[k])
                      THEN MapSet(reports, items[k].id, UrlOf(items[k]))
                      ELSE reports)

\* DVReportFetcher.getReports on the one response of the endpoint
DvGetReports(c, items) ==
    IF Len(items) = 0
    THEN [c EXCEPT !.pc = "done", !.error = ERR_API_RESPONSE]
    ELSE [c EXCEPT !.pc = "done", !.reports = DvForReports(items, 1, {})]

\* response.data.reports of the DV endpoint: up to MaxFiles reports, each
\* file once
DvResponses ==
    {p \in SeqsUpTo([id : FileIds, status : DvStatuses], MaxFiles) :
        \A i, j \in DOMAIN p : i # j => p[i].id # p[j].id}

InitCM ==
    /\ mode = "cm"
    /\ product \in Products
    /\ table = NoTable
    /\ IF product = "CM"
       THEN api \in [pages : Listings(FileIds, MaxPages), after : Afters]
       ELSE api \in [pages : {<<p>> : p \in DvResponses}, after : {"end"}]
    /\ cm = [NoCm EXCEPT !.pc = "loop"]
    /\ RunIdle /\ ExtIdle /\ DateIdle /\ ParseIdle /\ BqIdle

CmRequest ==
    /\ mode = "cm"
    /\ product = "CM"
    /\ cm.pc = "loop"
    /\ cm' = Iteration(cm, Respond(api, cm.nextPageToken))
    /\ UNCHANGED <<mode, worldVars, runVars, extVars, api, dateVars, parseVars, bqVars>>

\* the request of DVReportFetcher.getReports and what follows it
DvRequest ==
    /\ mode = "cm"
    /\ product = "DV"
    /\ cm.pc = "loop"
    /\ cm' = DvGetReports(cm, api.pages[1])
    /\ UNCHANGED <<mode, worldVars, runVars, extVars, api, dateVars, parseVars, bqVars>>

NextCM == CmRequest \/ DvRequest

SpecCM == InitCM /\ [][NextCM]_vars

\* the event loop runs the pending request of an unfinished getReports
FairSpecCM == SpecCM /\ WF_vars(NextCM)

-----------------------------------------------------------------------------
(* SpecDate: convertDate applied to one line *)

DATE_A == <<"2","0","2","2","/","0","1","/","0","5">>
DATE_B == <<"1","9","9","9","/","1","2","/","3","1">>

\* the cells a DV data line is built from
Cells == {DATE_A, DATE_B, <<"7">>, <<"1","/","2">>, <<"x">>}

\* cells.join(',')
RECURSIVE Join(_)
Join(cells) ==
    IF Len(cells) = 0 THEN <<>>
    ELSE IF Len(cells) = 1 THEN cells[1]
    ELSE cells[1] \o <<",">> \o Join(Tail(cells))

InitDate ==
    /\ mode = "date"
    /\ product = "DV"
    /\ table = NoTable
    /\ \E cells \in SeqsUpTo(Cells, MaxCells) :
          /\ Len(cells) >= 1
          /\ dateIn = Join(cells)
    /\ dateOut = <<>>
    /\ RunIdle /\ ExtIdle /\ CmIdle /\ ParseIdle /\ BqIdle

\* the call convertDate(line) of DVCSVExtractor._transform
Convert ==
    /\ mode = "date"
    /\ dateOut = <<>>
    /\ dateOut' = <<convertDate(dateIn)>>
    /\ UNCHANGED <<mode, worldVars, runVars, extVars, cmVars, dateIn, parseVars, bqVars>>

NextDate == Convert

SpecDate == InitDate /\ [][NextDate]_vars

-----------------------------------------------------------------------------
(* SpecBq: one call of buildValidBQName, buildSchema, compareSchema,          *)
(* transformSchema or checkSchema on arguments drawn from bounded sets        *)

\* longest raw name given to buildValidBQName
MaxNameLen == 3
\* largest number of header names given to buildSchema
MaxHeaders == 3
\* largest number of fields of a schema given to compareSchema / checkSchema
MaxFields == 2

\* characters of raw names: a lower-case letter, an upper-case letter, a
\* digit, the underscore and two characters outside [a-zA-Z0-9_]
NameChars == {"a", "Z", "7", "_", " ", "/"}

N_FILE_ID == <<"F","i","l","e"," ","I","D">>

\* header names of a report, some of which normalise to the same name
RawNames ==
    {<<"a">>, <<"A">>, <<"a"," ","b">>, <<"a","_","b">>, <<"a","_","1">>,
     N_FILE_ID, <<>>}

\* fields of schemas as BigQuery returns them or as buildSchema builds them
FieldPool ==
    {[name |-> <<"a">>, type |-> "STRING", mode |-> ""],
     [name |-> <<"a">>, type |-> "STRING", mode |-> "NULLABLE"],
     [name |-> <<"b">>, type |-> "STRING", mode |-> ""],
     [name |-> <<"a">>, type |-> "INTEGER", mode |-> "NULLABLE"]}

Schemas == {[present |-> TRUE, fields |-> f] : f \in SeqsUpTo(FieldPool, MaxFields)}

\* header names before and after the renaming of March 2021
BrandNames ==
    {<<"d","b","m">>, <<"d","v","3","6","0">>, <<"d","c","m">>,
     <<"c","m","3","6","0">>, <<"a">>}

\* fields of table schemas given to transformSchema: legacy names, current
\* names, a name with both legacy codes, a name no pattern matches, and a
\* field without name
TransformPool ==
    {[name |-> <<"d","b","m">>, type |-> "STRING", mode |-> "NULLABLE"],
     [name |-> <<"d","c","m">>, type |-> "INTEGER", mode |-> "NULLABLE"],
     [name |-> <<"c","m","3","6","0">>, type |-> "STRING", mode |-> "NULLABLE"],
     [name |-> <<"d","c","m","_","d","b","m">>, type |-> "STRING", mode |-> "NULLABLE"],
     [name |-> <<"a">>, type |-> "STRING", mode |-> "NULLABLE"],
     [name |-> <<>>, type |-> "STRING", mode |-> "NULLABLE"]}

BqCalls ==
    {[NoBq EXCEPT !.op = "name", !.name = n] :
        n \in SeqsUpTo(NameChars, MaxNameLen)}
    \cup {[NoBq EXCEPT !.op = "schema", !.names = h] :
        h \in SeqsUpTo(RawNames, MaxHeaders)}
    \cup {[NoBq EXCEPT !.op = "compare", !.left = l, !.right = r] :
        l \in Schemas, r \in Schemas}
    \cup {[NoBq EXCEPT !.op = "check",
                       !.names = h,
                       !.left = StoredSchema(buildSchema(t)),
                       !.before = StoredSchema(buildSchema(t)),
                       !.right = buildSchema(h)] :
        t \in SeqsUpTo(BrandNames, MaxFields),
        h \in SeqsUpTo(BrandNames, MaxFields)}
    \cup {[NoBq EXCEPT !.op = "transform",
                       !.left = [present |-> TRUE, fields |-> f],
                       !.before = [present |-> TRUE, fields |-> f]] :
        f \in SeqsUpTo(TransformPool, MaxFields)}

InitBq ==
    /\ mode = "bq"
    /\ product = "CM"
    /\ table = NoTable
    /\ bq \in BqCalls
    /\ RunIdle /\ ExtIdle /\ CmIdle /\ DateIdle /\ ParseIdle

\* buildValidBQName(name), and buildValidBQName of its result
CallBuildValidBQName ==
    /\ mode = "bq"
    /\ bq.op = "name"
    /\ ~bq.done
    /\ bq' = [bq EXCEPT !.done = TRUE,
                        !.valid = buildValidBQName(bq.name),
                        !.again = buildValidBQName(buildValidBQName(bq.name))]
    /\ UNCHANGED <<mode, worldVars, runVars, extVars, cmVars, dateVars, parseVars>>

\* buildSchema(names): the function has no throw statement
CallBuildSchema ==
    /\ mode = "bq"
    /\ bq.op = "schema"
    /\ ~bq.done
    /\ bq' = [bq EXCEPT !.done = TRUE, !.schema = buildSchema(bq.names)]
    /\ UNCHANGED <<mode, worldVars, runVars, extVars, cmVars, dateVars, parseVars>>

\* compareSchema(left, right)
CallCompareSchema ==
    /\ mode = "bq"
    /\ bq.op = "compare"
    /\ ~bq.done
    /\ bq' = [bq EXCEPT !.done = TRUE, !.match = compareSchema(bq.left, bq.right)]
    /\ UNCHANGED <<mode, worldVars, runVars, extVars, cmVars, dateVars, parseVars>>

\* checkSchema(schema) of an extractor constructed with tableSchema = left
CallCheckSchema ==
    /\ mode = "bq"
    /\ bq.op = "check"
    /\ ~bq.done
    /\ bq' = [bq EXCEPT !.done = TRUE,
                        !.error = checkSchema(NewExtractor(bq.left, 1),
                                              bq.right).error,
                        !.left = checkSchema(NewExtractor(bq.left, 1),
                                             bq.right).tableSchema]
    /\ UNCHANGED <<mode, worldVars, runVars, extVars, cmVars, dateVars, parseVars>>

\* transformSchema(left, NAME_PATTERNS)
CallTransformSchema ==
    /\ mode = "bq"
    /\ bq.op = "transform"
    /\ ~bq.done
    /\ bq' = [bq EXCEPT !.done = TRUE,
                        !.error = IF transformThrows(bq.left)
                                  THEN ERR_NO_NAMES ELSE "",
                        !.schema = IF transformThrows(bq.left) THEN NullSchema
                                   ELSE transformSchema(bq.left, NAME_PATTERNS),
                        !.left.fields = fieldsAfterTransform(bq.left, NAME_PATTERNS)]
    /\ UNCHANGED <<mode, worldVars, runVars, extVars, cmVars, dateVars, parseVars>>

NextBq ==
    CallBuildValidBQName \/ CallBuildSchema \/ CallCompareSchema
        \/ CallCheckSchema \/ CallTransformSchema

SpecBq == InitBq /\ [][NextBq]_vars

-----------------------------------------------------------------------------
(* Properties *)

Distinct(q) == \A i, j \in DOMAIN q : i # j => q[i] # q[j]

Ordered(q, newest) ==
    \A i, j \in DOMAIN q : i < j => IF newest THEN q[i] > q[j] ELSE q[i] < q[j]

\* C1: in every run the pending queue holds exactly the discovered file ids
\* that are neither ingested nor ignored, holds none of them twice, and is
\* ascending when newest is false and descending when newest is true; for
\* discovered {1..5}, ingested {2,4}, ignored {5} it is [1,3], resp. [3,1].
C1_PendingQueue ==
    /\ Range(pendingIds) = (discovered \ ingestedIds) \ opts.ignore
    /\ Distinct(pendingIds)
    /\ Ordered(pendingIds, opts.newest)
    /\ sort(filter(<<4, 1, 5, 3, 2>>, (1..5) \ ({2, 4} \cup {5})), FALSE) = <<1, 3>>
    /\ sort(filter(<<4, 1, 5, 3, 2>>, (1..5) \ ({2, 4} \cup {5})), TRUE) = <<3, 1>>

C1_Witness ==
    /\ pc = "loop"
    /\ opts.newest
    /\ ingestedIds = {2}
    /\ opts.ignore = {}
    /\ discovered = {1, 2, 3}
    /\ pendingIds = <<3, 1>>

\* C2: in a run without replace no file whose id was in the tracking column
\* when the run started, and no file of the ignore list, is attempted.
C2_NoReingest ==
    ~opts.replace =>
        \A i \in DOMAIN attempted :
            attempted[i] \notin (ledgerAtStart \cup opts.ignore)

C2_Witness ==
    /\ ~opts.replace
    /\ ledgerAtStart \cap discovered # {}
    /\ opts.ignore \cap discovered # {}
    /\ Len(attempted) > 0
    /\ pc = "done"

\* C3: over any sequence of invocations the rows of a file are loaded into
\* the destination table at most once.
C3_LoadedAtMostOnce == \A f \in FileIds : table.loads[f] <= 1

C3_Witness ==
    /\ ~opts.replace
    /\ pc = "done"
    /\ ledgerAtStart \cap discovered # {}
    /\ Len(attempted) > 0
    /\ lastFile.ok
    /\ \A f \in ledgerAtStart : table.loads[f] = 1
    /\ table.loads[lastFile.fileId] = 1

\* C4: getReports terminates, also when the endpoint serves its final page
\* again and again with a new non-empty page token.
C4_GetReportsTerminates == <>(cm.pc = "done")

ExpectedFrom(lines, s) ==
    IF s = 0 \/ s + 2 > Len(lines) - 1 THEN <<>>
    ELSE SubSeq(lines, s + 2, Len(lines) - 1)

FirstOf(lines, P) == IF P = {} THEN 0 ELSE CHOOSE i \in P : \A j \in P : i <= j

\* the lines after the header line, without the last line of the input
ExpectedCM(lines) ==
    ExpectedFrom(lines, FirstOf(lines, {i \in DOMAIN lines : lines[i] = FIELDS_HEADER}))

RowsAre(x, rows) ==
    /\ Len(x.out) = Len(rows)
    /\ \A i \in DOMAIN rows : x.out[i] = rows[i] \o x.fileIdColumn \o <<"\n">>

\* C5: the rows the CM extractor has emitted are always the first of the
\* lines that follow the header line (the line after the first "Report
\* Fields"), in input order and without the last input line, and at end of
\* input they are exactly those lines; for [metadata, "Report Fields", H, R1,
\* R2, R3, SummaryLine] they are R1, R2, R3.
C5_CMRows ==
    (mode = "ext" /\ product = "CM") =>
        /\ Len(ext.out) <= Len(ExpectedCM(consumed \o input))
        /\ RowsAre(ext, SubSeq(ExpectedCM(consumed \o input), 1, Len(ext.out)))
        /\ ext.flushed => RowsAre(ext, ExpectedCM(consumed))
        /\ (ext.flushed /\ consumed = ExampleCM)
              => RowsAre(ext, <<L_ROW1, L_ROW2, L_ROW3>>)

C5_Witness ==
    /\ mode = "ext"
    /\ product = "CM"
    /\ consumed = ExampleCM
    /\ ext.flushed
    /\ ext.error = ""
    /\ Len(ext.out) = 3

\* C6: a file whose header was recognized and for which no data row was
\* emitted fails with an error, is counted as failed, leaves no rows in the
\* table and is never reported as ingested, for either extractor variant.
C6_EmptyFileFails ==
    (lastFile.fileId # 0 /\ lastFile.handled > 0 /\ lastFile.counter = 0) =>
        /\ lastFile.error \in {ERR_NO_LINES, ERR_SCHEMA, ERR_EXISTS}
        /\ ~lastFile.ok
        /\ table.loads[lastFile.fileId] = 0
        /\ IF opts.single
           THEN pc = "done" /\ response = reject(lastFile.error, <<>>)
           ELSE /\ lastFile.fileId \in Range(failedIds)
                /\ pc = "done" => response = reject(MSG_FAILED, failedIds)

C6_Witness ==
    /\ product = "DV"
    /\ ~opts.single
    /\ lastFile.handled > 0
    /\ lastFile.counter = 0
    /\ lastFile.error = ERR_NO_LINES
    /\ pc = "done"

\* String.prototype.replace with the g flag: every match, left to right
RECURSIVE replaceAll(_, _, _, _)
replaceAll(s, re, newString, i) ==
    IF i > Len(s) THEN <<>>
    ELSE IF MatchLen(re, s, i) > 0
    THEN Expand(re, s, i, newString)
         \o replaceAll(s, re, newString, i + MatchLen(re, s, i))
    ELSE <<s[i]>> \o replaceAll(s, re, newString, i + 1)

\* C7: in the converted line every date YYYY/MM/DD of the source line reads
\* YYYY-MM-DD and no other character is altered.
C7_EveryDateConverted ==
    dateOut # <<>> =>
        dateOut[1] = replaceAll(dateIn, RE_DATE, <<"$","1","-","$","2","-","$","3">>, 1)

\* C8: in multi-file mode with no table at the start of the run, a
\* well-formed file that follows other files of the run is ingested when the
\* table, if one of them created it, has the schema of its header.
C8_LaterFileIngested ==
    (/\ mode = "run"
     /\ ~opts.single
     /\ ~opts.replace
     /\ ~tableExists
     /\ Len(attempted) >= 2
     /\ lastFile.content = "good"
     /\ lastFile.transport = "ok"
     /\ table.exists => table.schema = SchemaOfHeader)
        => lastFile.ok

\* C9: in single-file mode at most one file is attempted per invocation.
C9_SingleAttemptsOne == opts.single => Len(attempted) <= 1

C9_Witness ==
    /\ opts.single
    /\ Len(pendingIds) >= 2
    /\ Len(attempted) = 1
    /\ lastFile.ok
    /\ pc = "done"

\* C10: in single-file mode a failed file ends the run at once with status
\* 500 and the error of that file as the message; no other file is attempted.
C10_SingleFailureAborts ==
    (opts.single /\ lastFile.fileId # 0 /\ ~lastFile.ok) =>
        /\ pc = "done"
        /\ response.status = 500
        /\ ~response.success
        /\ response.message = lastFile.error
        /\ lastFile.error \in {ERR_DOWNLOAD, ERR_SCHEMA, ERR_EXISTS,
                               ERR_NO_LINES, ERR_LOAD}
        /\ attempted = <<lastFile.fileId>>

C10_Witness ==
    /\ opts.single
    /\ Len(pendingIds) >= 2
    /\ lastFile.fileId # 0
    /\ ~lastFile.ok
    /\ response.message = ERR_SCHEMA

IsPrefix(p, q) == Len(p) <= Len(q) /\ p = SubSeq(q, 1, Len(p))

\* C11: in multi-file mode the files are attempted in queue order, none
\* twice, and the run ends only when every file of the pending queue has been
\* attempted, however many of them failed.
C11_MultiAttemptsAll ==
    (~opts.single /\ pc \in {"loop", "done"}) =>
        /\ IsPrefix(attempted, pendingIds)
        /\ pc = "done" => attempted = pendingIds
        /\ pc = "loop" => Len(attempted) < Len(pendingIds)
        /\ Range(failedIds) \subseteq Range(attempted)

C11_Witness ==
    /\ ~opts.single
    /\ pc = "done"
    /\ Len(pendingIds) = MaxFiles
    /\ attempted = pendingIds
    /\ Len(failedIds) = MaxFiles - 1
    /\ lastFile.ok

\* the attempted files of the run that left no rows in the table
FailedFiles == {f \in Range(attempted) : table.loads[f] = 0}

\* C12: a run that processed files responds success iff no attempted file
\* failed; the message of a failed multi-file run lists exactly the files
\* that failed, each once.
C12_Finalize ==
    (pc = "done" /\ Len(attempted) > 0) =>
        /\ response.success <=> FailedFiles = {}
        /\ response.success => response = resolve(MSG_SUCCESS)
        /\ (~opts.single /\ ~response.success) =>
              /\ response.message = MSG_FAILED
              /\ Range(response.ids) = FailedFiles
              /\ Distinct(response.ids)

C12_Witness ==
    /\ pc = "done"
    /\ ~opts.single
    /\ Len(attempted) = MaxFiles
    /\ Cardinality(FailedFiles) = 1
    /\ ~lastFile.ok
    /\ ~response.success
    /\ Len(response.ids) = 1

\* C13: whenever the pending queue of a run is empty, because every
\* discovered file is ingested or ignored or because no file was discovered,
\* the run answers 200 with success and touches no file and no table.
C13_EmptyQueueNoOp ==
    [][(pc = "fetch" /\ pendingIds' = <<>>) =>
          /\ pc' = "done"
          /\ response'.status = 200
          /\ response'.success
          /\ attempted' = <<>>
          /\ table' = table]_vars

\* C14: under replace an existing table is deleted before any file is
\* processed and is absent for the rest of the run: the ingested set is
\* empty, there is no schema of record, the pending queue is discovered minus
\* ignored, and the first file whose header is read creates the table again.
C14_ReplaceDrops ==
    /\ [][(pc = "idle" /\ pc' = "fetch" /\ table.exists /\ opts'.replace) =>
             /\ table' = NoTable
             /\ ~tableExists'
             /\ ingestedIds' = {}
             /\ tableSchema' = NullSchema
             /\ attempted' = <<>>]_vars
    /\ [](opts.replace =>
             /\ ~tableExists
             /\ ingestedIds = {}
             /\ pc \in {"loop", "done"}
                   => Range(pendingIds) = discovered \ opts.ignore
             /\ Len(attempted) = 0 => ~table.exists
             /\ (Len(attempted) = 1 /\ lastFile.handled > 0) =>
                   /\ table.exists
                   /\ table.schema.present
                   /\ lastFile.error \notin {ERR_EXISTS, ERR_SCHEMA})

C14_Witness ==
    /\ opts.replace
    /\ pc = "done"
    /\ ledgerAtStart # {}
    /\ attempted = <<lastFile.fileId>>
    /\ lastFile.fileId \in ledgerAtStart
    /\ lastFile.ok
    /\ table.exists
    /\ Ledger(table) = {lastFile.fileId}

\* the file ids with rows in the table when the queue of the run is computed
InTable == IF opts.replace THEN {} ELSE ledgerAtStart

Least(S) == CHOOSE v \in S : \A w \in S : v <= w

\* C15: the files are processed one at a time in queue order, a file that
\* succeeded hands the schema of record to the next one, and with newest
\* unset the first file attempted is the oldest file that is neither in the
\* table nor ignored.
C15_Sequential ==
    /\ [](pc \in {"loop", "done"} =>
             /\ IsPrefix(attempted, pendingIds)
             /\ cursor = Len(attempted)
             /\ lastFile.ok => (tableSchema.present /\ tableSchema = table.schema)
             /\ (~opts.newest /\ Len(attempted) >= 1) =>
                   attempted[1] = Least(discovered \ (InTable \cup opts.ignore)))
    /\ [][Len(attempted') <= Len(attempted) + 1]_vars

C15_Witness ==
    /\ ~opts.newest
    /\ ~opts.single
    /\ ~opts.replace
    /\ ledgerAtStart = {1}
    /\ discovered = FileIds
    /\ attempted = <<2, 3>>
    /\ lastFile.ok

\* C16: an invocation sends one response and never a second one; it is 200
\* with success or 500 without, and it is 200 exactly when the run reached
\* the queue and no attempted file failed.
C16_OneResponse ==
    /\ []((pc = "done" <=> response # NoResponse)
          /\ (response # NoResponse =>
                 /\ \/ response.status = 200 /\ response.success
                    \/ response.status = 500 /\ ~response.success
                 /\ response.success <=> (discovered # {} /\ FailedFiles = {})))
    /\ [][response # NoResponse => response' = NoResponse]_vars

C16_Witness ==
    /\ pc = "done"
    /\ response = reject(ERR_PRODUCT_MISSING, <<>>)
    /\ table.exists

\* errors of a missing or invalid request field
ValidationErrors ==
    {ERR_PRODUCT_UNSUPPORTED, ERR_PRODUCT_MISSING, ERR_REPORT_INVALID,
     ERR_REPORT_MISSING, ERR_DATASET, ERR_PROFILE_INVALID, ERR_PROFILE_MISSING}

\* C17: a request that is rejected for a missing or invalid field has caused
\* no I/O: no project-id or credential lookup, no API call.
C17_ConfigErrorBeforeIo ==
    (parsed.done /\ parsed.error \in ValidationErrors) => io = <<>>

\* a number, or a non-empty string of digits
IsNumeric(v) ==
    \/ v.t = "num"
    \/ v.t = "str" /\ Len(v.s) > 0 /\ AllDigits(v.s, 1, Len(v.s))

IsProduct(v, name) == v.t = "str" /\ toUpperCase(v.s) = name

\* a body the validation rules reject
InvalidBody(body) ==
    \/ ~(IsProduct(body.product, <<"C","M">>) \/ IsProduct(body.product, <<"D","V">>))
    \/ ~IsNumeric(body.reportId)
    \/ body.datasetName.t = "absent"
    \/ body.datasetName.t = "str" /\ Len(body.datasetName.s) = 0
    \/ IsProduct(body.product, <<"C","M">>) /\ body.profileId.t = "absent"

\* C18: a body whose product is missing or not CM / DV, whose reportId is
\* missing or not numeric, whose datasetName is missing or empty, or that
\* lacks the profileId for CM, is rejected with a validation error; a DV body
\* without profileId is accepted with profileId null.
C18_Validation ==
    (parsed.done /\ request.kind \in {"object", "buffer"} /\ request.lookup = "ok") =>
        /\ InvalidBody(request.body) => parsed.error \in ValidationErrors
        /\ (~InvalidBody(request.body) /\ request.body.profileId.t = "absent") =>
              (parsed.error = "" /\ parsed.opts.profileId = NoNumber)

AllNumbers(elems) == \A i \in DOMAIN elems : elems[i].t = "num"

\* C19: in an accepted body an absent single, ignore, newest or replace takes
\* its default (true, [], false, false); a boolean given for a flag is taken
\* as it is and a list of numbers given for ignore is taken, in ascending
\* order.
C19_Defaults ==
    (parsed.done /\ parsed.error = "") =>
        /\ request.body.single.t = "absent" => parsed.opts.single = TRUE
        /\ request.body.newest.t = "absent" => parsed.opts.newest = FALSE
        /\ request.body.replace.t = "absent" => parsed.opts.replace = FALSE
        /\ request.body.ignore.t = "absent" => parsed.opts.ignore = <<>>
        /\ request.body.single.t = "bool" => parsed.opts.single = request.body.single.b
        /\ request.body.newest.t = "bool" => parsed.opts.newest = request.body.newest.b
        /\ request.body.replace.t = "bool"
              => parsed.opts.replace = request.body.replace.b
        /\ (request.body.ignore.t = "arr" /\ AllNumbers(request.body.ignore.a)) =>
              /\ Len(parsed.opts.ignore) = Len(request.body.ignore.a)
              /\ Range(parsed.opts.ignore)
                    = {request.body.ignore.a[i].n : i \in DOMAIN request.body.ignore.a}
              /\ \A i, j \in DOMAIN parsed.opts.ignore :
                    i < j => parsed.opts.ignore[i] <= parsed.opts.ignore[j]

C19_Witness ==
    /\ parsed.done
    /\ parsed.error = ""
    /\ request.body = ValidDV
    /\ parsed.opts.single
    /\ parsed.opts.ignore = <<>>
    /\ ~parsed.opts.newest
    /\ ~parsed.opts.replace

\* the line as the extractor of the product passes it on
Normalized(prod, line) == IF prod = "DV" THEN convertDate(line) ELSE line

\* the tracking value of a file with a one-digit id
Tracking(f) == <<",", DigitChars[f + 1]>>

\* C20: every row an extractor has emitted is a line of the file (with the
\* date rewritten for DV), then the tracking value ",<fileId>" of the file
\* being processed, once, then a newline; all rows carry the same fileId.
C20_TrackingColumn ==
    mode = "ext" =>
        \E f \in FileIds :
            /\ ext.fileIdColumn = Tracking(f)
            /\ \A i \in DOMAIN ext.out :
                  \E k \in DOMAIN consumed :
                      ext.out[i] = Normalized(product, consumed[k]) \o Tracking(f)
                                       \o <<"\n">>
            /\ ext.counter = Len(ext.out)

C20_Witness ==
    /\ mode = "ext"
    /\ product = "DV"
    /\ consumed = ExampleDV
    /\ ext.flushed
    /\ Len(ext.out) = 3
    /\ ext.out[1] = <<"2","0","2","2","-","0","1","-","0","5",",","1">>
                        \o Tracking(MaxFiles) \o <<"\n">>
    /\ ext.out[3] = L_ROW2 \o Tracking(MaxFiles) \o <<"\n">>


\* a field name that is the normalised header, or that name with a suffix _k
HeaderNamed(fieldName, raw) ==
    \/ fieldName = buildValidBQName(raw)
    \/ \E k \in 1..(MaxHeaders + 1) :
          fieldName = buildValidBQName(raw) \o <<"_">> \o NumberToString(k)

\* one field per header, in header order, named by the normalised header or
\* by that name with a suffix; pairwise distinct names; every type STRING
BuildSchemaShape ==
    (bq.op = "schema" /\ bq.done) =>
        /\ bq.schema.present
        /\ Len(bq.schema.fields) = Len(bq.names) + 1
        /\ \A i \in 1..Len(bq.names) :
              HeaderNamed(bq.schema.fields[i].name, bq.names[i])
        /\ \A i, j \in DOMAIN bq.schema.fields :
              i # j => bq.schema.fields[i].name # bq.schema.fields[j].name
        /\ \A i \in DOMAIN bq.schema.fields : bq.schema.fields[i].type = "STRING"

\* C21: buildSchema(headers) returns one field per header in header order,
\* each named by the normalised header text (suffixed _1, _2, ... on
\* collision), followed as the last field by the tracking column, the field
\* built from FILE_ID_COLUMN; all field names are pairwise distinct and every
\* field has type STRING. (The name the tracking column ends up with is the
\* subject of C36.)
C21_BuildSchema ==
    (bq.op = "schema" /\ bq.done) =>
        /\ BuildSchemaShape
        /\ bq.error = ""
        /\ HeaderNamed(bq.schema.fields[Len(bq.schema.fields)].name, N_FILE_ID)

C21_Witness ==
    /\ bq.op = "schema"
    /\ bq.done
    /\ bq.names = << <<"a"," ","b">>, <<"a","_","b">>, <<"a","_","b">> >>
    /\ bq.schema.fields[2].name = <<"a","_","b","_","1">>
    /\ bq.schema.fields[3].name = <<"a","_","b","_","2">>
    /\ bq.schema.fields[4].name = FILE_ID_COLUMN

\* C36: for every header row the tracking column appended by buildSchema, the
\* last field of the built schema, is named exactly file_id, the column the
\* lookback query selects, also when a header normalises to file_id.
C36_TrackingColumnName ==
    (bq.op = "schema" /\ bq.done) =>
        bq.schema.fields[Len(bq.schema.fields)].name = FILE_ID_COLUMN

\* C22: buildSchema fails, signalling an error and returning no schema, when
\* the list of header names is empty.
C22_EmptyHeadersFail ==
    (bq.op = "schema" /\ bq.done /\ bq.names = <<>>) =>
        /\ bq.error # ""
        /\ ~bq.schema.present

\* the character the normaliser is to put in place of c
NormalChar(c) ==
    IF c \in DigitSet \cup LowerSet THEN c
    ELSE IF \E k \in DOMAIN UpperChars : UpperChars[k] = c
    THEN LowerChars[CHOOSE k \in DOMAIN UpperChars : UpperChars[k] = c]
    ELSE "_"

\* C23: for every input string buildValidBQName returns a string of the same
\* length in which each character outside [A-Za-z0-9] is replaced by '_' and
\* each letter is lower-cased, so that the result holds only [a-z0-9_];
\* applying it to its own result gives that result again.
C23_Normalizer ==
    (bq.op = "name" /\ bq.done) =>
        /\ Len(bq.valid) = Len(bq.name)
        /\ \A i \in DOMAIN bq.name : bq.valid[i] = NormalChar(bq.name[i])
        /\ Range(bq.valid) \subseteq (LowerSet \cup DigitSet \cup {"_"})
        /\ bq.again = bq.valid

C23_Witness ==
    /\ bq.op = "name"
    /\ bq.done
    /\ bq.name = <<"Z", " ", "7">>
    /\ bq.valid = <<"z", "_", "7">>

\* the {name, type} pairs of a schema, in order
NameTypes(schema) ==
    [i \in DOMAIN schema.fields |->
        <<schema.fields[i].name, schema.fields[i].type>>]

C30_WitnessMismatch ==
    /\ bq.op = "compare"
    /\ bq.done
    /\ Len(bq.left.fields) # Len(bq.right.fields)
    /\ ~bq.match

\* the file passes the check of table schema T against report schema C
Passes(T, C) ==
    \/ compareSchema(T, C)
    \/ /\ transformSchema(T, NAME_PATTERNS).present
       /\ compareSchema(transformSchema(T, NAME_PATTERNS), C)

\* C26: with an existing destination schema T and the header-derived schema
\* C, the file passes iff compareSchema(T, C) holds, or the rename migration
\* of T is non-null and compareSchema(migrated T, C) holds; otherwise it fails
\* with the schema error. The migration is applied to T only: a renamed table
\* [dv360] does not accept a report that still has the header dbm.
C26_CheckSchema ==
    (bq.op = "check" /\ bq.done) =>
        /\ bq.error \in {"", ERR_SCHEMA}
        /\ (bq.error = "") <=> Passes(bq.left, bq.right)
        /\ (/\ bq.names = << <<"d","b","m">> >>
            /\ NameTypes(bq.left) = NameTypes(buildSchema(<< <<"d","v","3","6","0">> >>)))
              => bq.error = ERR_SCHEMA

C26_Witness ==
    /\ bq.op = "check"
    /\ bq.done
    /\ bq.names = << <<"d","v","3","6","0">>, <<"c","m","3","6","0">> >>
    /\ NameTypes(bq.left) = NameTypes(buildSchema(<< <<"d","b","m">>, <<"d","c","m">> >>))
    /\ ~compareSchema(bq.left, bq.right)
    /\ bq.error = ""

\* the lines written so far hold the header line of the file: for DV the
\* first line, for CM the line after the first "Report Fields"
HeaderRecognized(prod, lines) ==
    IF prod = "DV" THEN Len(lines) >= 1
    ELSE /\ FirstOf(lines, {i \in DOMAIN lines : lines[i] = FIELDS_HEADER}) # 0
         /\ Len(lines) >
               FirstOf(lines, {i \in DOMAIN lines : lines[i] = FIELDS_HEADER})

\* C24: for each file, either extractor calls handleFields exactly once when
\* a header line is recognized and never otherwise; no data row is buffered
\* or emitted before or in the step in which the reconciliation, table
\* creation included, completes.
C24_ReconcileOnce ==
    /\ [](mode = "ext" =>
            /\ ext.handled = IF HeaderRecognized(product, consumed) THEN 1 ELSE 0
            /\ ext.handled = 0 =>
                  ext.out = <<>> /\ ext.previous = <<>> /\ ~ext.passthrough
            /\ ext.counter > 0 => ext.tableSchema.present /\ table.exists)
    /\ [][(mode = "ext" /\ ext'.handled # ext.handled) =>
            /\ ext.out = <<>>
            /\ ext'.out = <<>>
            /\ ext'.previous = <<>>]_vars

C24_Witness ==
    /\ mode = "ext"
    /\ product = "DV"
    /\ consumed = ExampleDV
    /\ ext.handled = 1
    /\ ext.counter = 3
    /\ ext.flushed

\* C25: when the header of a file raises an error (the schema does not match
\* after the migration, or the table cannot be created), the stream of the
\* file ends there: no row of the file is emitted or loaded, and the pipeline
\* is rejected, so that the file is recorded as failed (or, with single, the
\* run is rejected with that error).
C25_HeaderErrorFails ==
    (lastFile.fileId # 0 /\ lastFile.error \in {ERR_SCHEMA, ERR_EXISTS}) =>
        /\ lastFile.handled = 1
        /\ lastFile.counter = 0
        /\ ~lastFile.ok
        /\ table.loads[lastFile.fileId] = 0
        /\ IF opts.single
           THEN pc = "done" /\ response = reject(lastFile.error, <<>>)
           ELSE /\ lastFile.fileId \in Range(failedIds)
                /\ pc = "done" => response = reject(MSG_FAILED, failedIds)

C25_Witness ==
    /\ ~opts.single
    /\ product = "CM"
    /\ lastFile.content = "drift"
    /\ lastFile.error = ERR_SCHEMA
    /\ lastFile.fileId \in Range(failedIds)
    /\ pc = "done"

\* C27: when the extractor has no destination schema, the header line makes
\* it create the destination table with the schema built from the header,
\* and the schema of the extractor becomes the schema the creation returned,
\* not the one built locally, before any row is processed. (When the table
\* exists already the creation is attempted and rejected.)
C27_CreateAdopts ==
    /\ [](mode = "ext" /\ ext.counter > 0 => ext.tableSchema.present)
    /\ [][(/\ mode = "ext"
           /\ ~ext.tableSchema.present
           /\ ext'.handled # ext.handled) =>
            IF table.exists
            THEN /\ ext'.error = ERR_EXISTS
                 /\ ~ext'.tableSchema.present
                 /\ table' = table
            ELSE /\ ext'.error = ""
                 /\ table'.exists
                 /\ table'.schema = StoredSchema(buildSchema(split(Head(input))))
                 /\ ext'.tableSchema = table'.schema
                 /\ ext'.tableSchema # buildSchema(split(Head(input)))
                 /\ ext'.out = <<>>
                 /\ ext'.counter = 0]_vars

C27_Witness ==
    /\ mode = "ext"
    /\ product = "CM"
    /\ consumed = <<FIELDS_HEADER, L_ROW1, L_ROW2, L_ROW1>>
    /\ table.exists
    /\ table.schema = StoredSchema(buildSchema(split(L_ROW1)))
    /\ ext.tableSchema = table.schema
    /\ ext.counter = 1

\* the schema of record changes only from absent to the schema of the table
\* the file just processed created, and only when that file did not fail
ChangesOnceOnSuccess ==
    tableSchema' # tableSchema =>
        /\ ~tableSchema.present
        /\ tableSchema'.present
        /\ tableSchema' = table'.schema
        /\ lastFile'.ok
        /\ lastFile'.error = ""

\* the table is known to have existed when the run started: it was found and
\* kept, or its tracking column held file ids
ExistedAtStart == tableExists \/ ledgerAtStart # {}

\* C28 as stated: within one run the schema of record of the orchestrator
\* changes at most once, from absent to the created table's schema, and only
\* after a file whose pipeline completed without error; a failed file never
\* changes it; when the table existed at run start it is the same for every
\* file of the run (it does not change before a further file is taken).
C28_SameWhenExisted ==
    [][(mode = "run" /\ pc = "loop") =>
          /\ ChangesOnceOnSuccess
          /\ (ExistedAtStart /\ pc' = "loop") => tableSchema' = tableSchema]_vars

\* C28, amended: as above, but the schema of record is the same for every
\* file of the run when the table existed at run start and was not deleted
\* for replacement (tableExists after reports.ts 245-260).
C28_SchemaOfRecord ==
    [][(mode = "run" /\ pc = "loop") =>
          /\ ChangesOnceOnSuccess
          /\ tableExists => (tableSchema.present /\ tableSchema' = tableSchema)]_vars

C28_Witness ==
    /\ mode = "run"
    /\ ~opts.single
    /\ ~tableExists
    /\ cursor = 2
    /\ Len(failedIds) = 1
    /\ lastFile.ok
    /\ tableSchema.present
    /\ tableSchema = table.schema

\* a line that is empty or begins with a comma
IsSummaryLine(line) == Len(line) = 0 \/ line[1] = ","

\* the lines after the first one, up to and without the first later line that
\* is empty or begins with a comma
ExpectedDV(lines) ==
    IF Len(lines) < 2 THEN <<>>
    ELSE SubSeq(lines, 2,
                FirstOf(lines \o <<L_EMPTY>>,
                        {i \in 2..(Len(lines) + 1) :
                            IsSummaryLine((lines \o <<L_EMPTY>>)[i])}) - 1)

\* C29: the DV extractor consumes the first line as the header and never
\* emits it; it emits the following lines (date-normalised, with the file
\* id) in input order up to and without the first line that is empty or
\* begins with a comma; that line and every later line are never emitted,
\* and the header is handled once only. A header that raises an error ends
\* the stream without any row.
C29_DVRows ==
    (mode = "ext" /\ product = "DV") =>
        /\ ext.handled <= 1
        /\ IF ext.error \in {ERR_SCHEMA, ERR_EXISTS}
           THEN ext.out = <<>>
           ELSE RowsAre(ext, [i \in DOMAIN ExpectedDV(consumed) |->
                                convertDate(ExpectedDV(consumed)[i])])
        /\ (consumed # <<>> /\ ~ext.csvFound) =>
              (ext.summaryFound \/ ext.error # "")

C29_Witness ==
    /\ mode = "ext"
    /\ product = "DV"
    /\ consumed = <<L_HEADER, L_ROW1, L_EMPTY, L_ROW1>>
    /\ ext.error = ""
    /\ Len(ext.out) = 1
    /\ ext.ended
    /\ ext.handled = 1

\* some configured pattern matches some field name of the schema
SomePatternMatches(schema) ==
    \E i \in DOMAIN schema.fields : \E k \in DOMAIN NAME_PATTERNS :
        test(NAME_PATTERNS[k].oldPattern, schema.fields[i].name)

\* C31: transformSchema returns null iff no configured pattern matches any
\* field name of the schema; a schema it returns has the length and the types
\* of the input, and at least one of its field names differs from the input.
\* (A schema with a field without name makes it throw.)
C31_TransformResult ==
    (bq.op = "transform" /\ bq.done /\ bq.error = "") =>
        /\ ~bq.schema.present <=> ~SomePatternMatches(bq.before)
        /\ bq.schema.present =>
              /\ Len(bq.schema.fields) = Len(bq.before.fields)
              /\ \A i \in DOMAIN bq.before.fields :
                    /\ bq.schema.fields[i].type = bq.before.fields[i].type
                    /\ bq.schema.fields[i].mode = bq.before.fields[i].mode
              /\ \E i \in DOMAIN bq.before.fields :
                    bq.schema.fields[i].name # bq.before.fields[i].name

C31_Witness ==
    /\ bq.op = "transform"
    /\ bq.done
    /\ Len(bq.before.fields) = MaxFields
    /\ bq.before.fields[1].name = <<"a">>
    /\ bq.before.fields[2].name = <<"d","c","m">>
    /\ bq.schema.present
    /\ bq.schema.fields[1].name = <<"a">>
    /\ bq.schema.fields[2].name = <<"c","m","3","6","0">>
    /\ bq.schema.fields[2].type = "INTEGER"

\* C32: transformSchema never mutates its input: after the call the field
\* names and types of the input schema are those before the call, whether it
\* returned null or a new schema (or threw); consequently checkSchema leaves
\* the table schema it was given unchanged.
C32_InputUnchanged ==
    (bq.op \in {"transform", "check"} /\ bq.done) => bq.left = bq.before

C32_Witness ==
    /\ bq.op = "transform"
    /\ bq.done
    /\ bq.schema.present
    /\ bq.schema.fields # bq.before.fields
    /\ bq.left = bq.before
    /\ Len(bq.left.fields) = MaxFields

\* the name with the replacement of every matching pattern applied
RECURSIVE ApplyAll(_, _, _)
ApplyAll(name, patternMap, k) ==
    IF k > Len(patternMap) THEN name
    ELSE ApplyAll(strReplace(name, patternMap[k].oldPattern,
                             patternMap[k].newString),
                  patternMap, k + 1)

\* C33: transformSchema applies every pattern to every field name: in the
\* schema it returns, a field name matched by more than one pattern has the
\* replacements of all matching patterns applied.
C33_AllPatternsApplied ==
    (bq.op = "transform" /\ bq.done /\ bq.schema.present) =>
        \A i \in DOMAIN bq.before.fields :
            bq.schema.fields[i].name =
                ApplyAll(bq.before.fields[i].name, NAME_PATTERNS, 1)

\* the items of all pages of the listing
AllItems(a) == UNION {Range(a.pages[p]) : p \in DOMAIN a.pages}

\* the entries of the files of the listing that are in available status
AvailableEntries(prod, a) ==
    {[id |-> it.id, url |-> UrlOf(it)] :
        it \in {x \in AllItems(a) :
                  x.status = IF prod = "CM" THEN REPORT_AVAILABLE_STATE
                             ELSE DV_AVAILABLE_STATE}}

C35_SchemaAbsentIffNoTable ==
    (mode = "run" /\ pc = "loop" /\ cursor < Len(pendingIds)) =>
        (~tableSchema.present <=> ~table.exists)

\* C37: when a destination schema exists, handling the header changes neither
\* the schema of record of the extractor nor the destination table: after
\* checkSchema the schema is the one passed in, whether the comparison
\* succeeded directly, succeeded after the rename migration, or failed.
C37_CheckKeepsSchema ==
    [][(/\ mode = "ext"
        /\ ext.tableSchema.present
        /\ ext'.handled # ext.handled) =>
            /\ ext'.tableSchema = ext.tableSchema
            /\ table' = table
            /\ ext'.error \in {"", ERR_SCHEMA}]_vars

C37_Witness ==
    /\ mode = "ext"
    /\ product = "DV"
    /\ ext.tableSchema = SchemaLegacy
    /\ table.schema = SchemaLegacy
    /\ ext.handled = 1
    /\ ext.error = ""
    /\ ext.counter = 1
    /\ ~compareSchema(ext.tableSchema, buildSchema(split(consumed[1])))

\* C38: with replace set and the table existing, the table is deleted before
\* the report files are enumerated, and unconditionally: when the enumeration
\* fails, finds no file, or leaves nothing pending, or the processed file
\* fails, the run ends with the table that existed before, and its ledger,
\* gone. (Rows in the table are rows of files this run attempted.)
C38_ReplaceDeletesFirst ==
    (mode = "run" /\ opts.replace /\ pc \in {"fetch", "loop", "done"}) =>
        /\ pc = "fetch" => table = NoTable
        /\ attempted = <<>> => table = NoTable
        /\ \A f \in FileIds : table.loads[f] > 0 => f \in Range(attempted)
        /\ (lastFile.fileId # 0 /\ ~lastFile.ok) =>
              table.loads[lastFile.fileId] = 0

C38_Witness ==
    /\ mode = "run"
    /\ opts.replace
    /\ ledgerAtStart # {}
    /\ pc = "done"
    /\ response = reject(ERR_ENUMERATION, <<>>)
    /\ table = NoTable

\* the files of the run that are neither in the table at its start nor ignored
PendingSet == (discovered \ ledgerAtStart) \ opts.ignore

\* what a run in single-file mode with ascending order does to the table
SingleRun ==
    /\ Len(attempted) <= 1
    /\ attempted # <<>> => attempted[1] = Least(PendingSet)
    /\ (pc = "done" /\ attempted # <<>>) =>
          IF lastFile.ok
          THEN /\ attempted[1] \notin ledgerAtStart
               /\ Ledger(table) = ledgerAtStart \cup {attempted[1]}
          ELSE Ledger(table) = ledgerAtStart
    /\ (pc = "done" /\ discovered # {} /\ PendingSet = {}) =>
          /\ attempted = <<>>
          /\ response = resolve(MSG_NOTHING)
          /\ Ledger(table) = ledgerAtStart

\* C39 as stated: in every run in single-file mode with ascending order, the
\* one file attempted is the oldest discovered file that is neither in the
\* table nor ignored; a failed attempt leaves the ledger as it was, so that
\* the next run over the same files attempts the same file and never a newer
\* one; a successful attempt adds exactly that file to the ledger, so that
\* each run ingests one file, and once no file is pending a run is a no-op.
C39_SingleModeRuns ==
    (mode = "run" /\ opts.single /\ ~opts.newest /\ pc \in {"loop", "done"})
        => SingleRun

\* C39, amended: the same for runs in which replace is not set.
C39_SingleModeKeepRuns ==
    (/\ mode = "run"
     /\ opts.single /\ ~opts.newest /\ ~opts.replace
     /\ pc \in {"loop", "done"})
        => SingleRun

C39_Witness ==
    /\ mode = "run"
    /\ opts.single /\ ~opts.newest /\ ~opts.replace
    /\ opts.ignore = {}
    /\ pc = "done"
    /\ discovered = FileIds
    /\ ledgerAtStart = {1}
    /\ attempted = <<2>>
    /\ lastFile.ok
    /\ Ledger(table) = {1, 2}

=============================================================================
